---- MODULE Spec2Model ----
(***************************************************************************)
(* A model of the serverstf state cache (serverstf/cache.py) and of the    *)
(* poller that drains its interest queue (serverstf/poll.py).              *)
(*                                                                         *)
(* Redis is the shared state; every cache handle (one per poller process   *)
(* or per WebSocket service) runs one cache operation at a time, and an    *)
(* operation takes one step per Redis round trip, so that the steps of     *)
(* operations running on different handles interleave.                     *)
(*                                                                         *)
(* Optional values (Python's None) are sequences of length at most one:    *)
(* <<>> is None and <<x>> is the value x.                                  *)
(***************************************************************************)
EXTENDS Integers, Sequences, FiniteSets, TLC

\* ------------------------------------------------------------------ bounds

\* The number of cache handles (poller processes, services) sharing Redis.
NumHandles == 2

\* The total number of subscribe() calls of a behaviour.
MaxSubs == 3

\* The total number of set() calls of a behaviour.
MaxSets == 3

\* The number of WebSocket clients, each with its dedicated notifier.
NumClients == 2

\* The total number of calls made on the notifiers directly.
MaxCalls == 3

\* The total number of messages the clients send to the gateway.
MaxMsgs == 2

\* The number of tag implementations given to a Tagger.
MaxRules == 3

\* The number of (name, score, duration) entries of a Players object.
MaxScores == 2

\* ------------------------------------------------------- program constants

PortMin == 1
PortMax == 65535

\* ----------------------------------------------------------------- values

None == <<>>
Some(x) == <<x>>

Handles == 1 .. NumHandles

Clients == 1 .. NumClients

\* AsyncCache.notifier() gives every client a notifier of its own.
Notifiers == Clients

IPs == {"192.0.2.1", "192.0.2.2"}

\* Address objects: Address(ip, port).
Addresses == {[ip |-> i, port |-> 27015] : i \in IPs}

Tags == {"tf2", "mode:cp"}

\* Address.__init__: the port must be in 1..65535.
ValidPort(port) == port >= PortMin /\ port <= PortMax

\* Address.__str__: "<ip>:<port>", as the pair of its two parts.
str(address) == <<address.ip, address.port>>

\* Address.parse: the inverse of __str__; None stands for AddressError.
parse(s) ==
    IF Len(s) = 2 /\ s[1] \in IPs /\ ValidPort(s[2])
    THEN Some([ip |-> s[1], port |-> s[2]])
    ELSE None

\* The keys of the per-server Redis entries: stringified addresses.
AddrKeys == {str(a) : a \in Addresses}

\* Address.__str__ as text: a peer can send this string as a tag.
AddressText(address) ==
    CASE address.ip = "192.0.2.1" -> "192.0.2.1:27015"
      [] address.ip = "192.0.2.2" -> "192.0.2.2:27015"

\* The tags that read as the text of an address.
AddressTags == {AddressText(a) : a \in Addresses}

\* datetime.timedelta(seconds=n) and timedelta.total_seconds().
Timedelta(n) == [seconds |-> n]
TotalSeconds(d) == d.seconds

\* str(int) and int(str) on non-negative integers: decimal digits.
RECURSIVE IntToStr(_)
IntToStr(n) == IF n < 10 THEN <<n>> ELSE Append(IntToStr(n \div 10), n % 10)

RECURSIVE StrToInt(_)
StrToInt(s) ==
    IF Len(s) = 1 THEN s[1]
    ELSE 10 * StrToInt(SubSeq(s, 1, Len(s) - 1)) + s[Len(s)]

\* Players(current, max_, bots, scores)
EmptyPlayers == [current |-> 0, max |-> 0, bots |-> 0, scores |-> <<>>]

\* Players.to_json: scores become [name, score, duration-seconds] arrays.
to_json(p) ==
    [current |-> p.current, max |-> p.max, bots |-> p.bots,
     scores |-> [i \in 1 .. Len(p.scores) |->
                    <<p.scores[i][1], p.scores[i][2],
                      TotalSeconds(p.scores[i][3])>>]]

\* Players.from_json: the decoded entries are collected in a local list,
\* but the object is constructed with scores=[].
from_json(j) ==
    [current |-> j.current, max |-> j.max, bots |-> j.bots, scores |-> <<>>]

\* Status(address, interest, name, map_, application_id, players, tags):
\* a None interest becomes 0, None players become the empty Players.
Status(address, interest, name, map_, application_id, players, tags) ==
    [address |-> address,
     interest |-> IF interest = None THEN 0 ELSE interest[1],
     name |-> name, map |-> map_, application_id |-> application_id,
     players |-> IF players = None THEN EmptyPlayers ELSE players[1],
     tags |-> tags]

\* The hash fields __set writes for a status: None attributes are left out,
\* the others are stringified; players are always written, as JSON.
HashOf(s) ==
    [name |-> s.name,
     map |-> s.map,
     application_id |-> IF s.application_id = None THEN None
                        ELSE Some(IntToStr(s.application_id[1])),
     players |-> Some(to_json(s.players))]

\* A hash key that does not exist: HGETALL returns no field.
NoHash == [name |-> None, map |-> None, application_id |-> None,
           players |-> None]

\* ------------------------------------------------------------ the inputs

Roster == <<<<"alice", 3, Timedelta(60)>>>>

\* What a poll can observe of a server, apart from its tags.
Observations ==
    { [name |-> None, map |-> None, application_id |-> None,
       players |-> None],
      [name |-> Some("srv"), map |-> Some("cp_well"),
       application_id |-> Some(440),
       players |-> Some([current |-> 1, max |-> 24, bots |-> 0,
                         scores |-> Roster])],
      [name |-> Some("srv"), map |-> None, application_id |-> Some(440),
       players |-> Some([current |-> 2, max |-> 24, bots |-> 1,
                         scores |-> <<>>])] }

\* The statuses that differ in their tags only.
TagStatuses ==
    { Status(a, None, Some("srv"), Some("cp_well"), Some(440), None, T) :
        a \in Addresses, T \in SUBSET Tags }

\* What the pollers of the interest queue observe: the game mode of a
\* server comes and goes.
PollStatuses ==
    { Status(a, None, Some("srv"), Some("cp_well"), Some(440), None, T) :
        a \in Addresses, T \in {{"tf2"}, {"tf2", "mode:cp"}} }

\* The statuses of servers that gain and lose one tag.
OneTagStatuses ==
    { Status(a, None, Some("srv"), Some("cp_well"), Some(440), None, T) :
        a \in Addresses, T \in {{}, {"tf2"}} }

\* One status for every server, as a poller of tf2 servers sets it.
ServerStatuses ==
    { Status(a, None, Some("srv"), Some("cp_well"), Some(440), None,
             {"tf2"}) : a \in Addresses }

\* One status for every server: both are tf2 servers, the second one runs
\* a control-point map.
QueryStatuses ==
    { Status(a, None, Some("srv"), Some("cp_well"), Some(440), None,
             IF a.ip = "192.0.2.1" THEN {"tf2"} ELSE {"tf2", "mode:cp"}) :
        a \in Addresses }

\* The statuses of one server whose game mode comes and goes.
MatchStatuses ==
    { Status([ip |-> "192.0.2.1", port |-> 27015], None, Some("srv"),
             Some("cp_well"), Some(440), None, T) :
        T \in {{"tf2"}, {"tf2", "mode:cp"}} }

\* The statuses of one server that gains and loses a tag, as a poller
\* builds them (interest=None) and as a get returned them (here interest 7).
InterestStatuses ==
    { Status([ip |-> "192.0.2.1", port |-> 27015], i, Some("srv"),
             Some("cp_well"), Some(440), None, T) :
        i \in {None, Some(7)}, T \in {{}, {"tf2"}} }

\* Two statuses of one server that differ in every stored field and in
\* their tags: the server as it ran a control-point map and as it runs
\* another map, with other players.
AtomicStatuses ==
    LET a == [ip |-> "192.0.2.1", port |-> 27015]
    IN  { Status(a, None, Some("one"), Some("cp_well"), Some(440),
                 Some([current |-> 1, max |-> 24, bots |-> 0,
                       scores |-> <<>>]), {"tf2", "mode:cp"}),
          Status(a, None, Some("two"), Some("pl_upward"), Some(441),
                 Some([current |-> 2, max |-> 32, bots |-> 1,
                       scores |-> <<>>]), {"tf2"}) }

\* The statuses that differ in every field.
FullStatuses ==
    { Status(a, i, o.name, o.map, o.application_id, o.players, T) :
        a \in Addresses, i \in {None, Some(7)}, o \in Observations,
        T \in {{}, {"tf2"}} }

\* ------------------------------------------------------------- the state

VARIABLES
    servers,    \* SET servers: the authoritative set of address keys
    hash,       \* HASH servers/<addr>: the status fields, as stored strings
    stags,      \* SET servers/<addr>/tags
    tagidx,     \* SET tags/<tag>: the reverse index, address keys
    interest,   \* servers/<addr>/interest, 0 when the key does not exist
    iq,         \* LIST interesting: the interest queue, head first
    tmp,        \* the random temporary key of each handle's search, or None
    published,  \* the notifications published so far: <<kind, channel, payload>>
    pc,         \* each handle's position inside its current cache operation
    ppc,        \* each handle's position in the poller loop, "off": no poller
    active,     \* each handle's _active_iq_item, or None
    loc,        \* the local variables of each handle's current operation
    ret,        \* what each handle's last operation returned or raised
    sethist,    \* history: per address, the statuses of the last two completed sets
    nsets,      \* history: the number of set() calls started
    nsub        \* history: per address, the number of subscribe() calls started

VARIABLES
    subscriber, \* each notifier's _subscriber is set: it is in watching mode
    watched,    \* the channels each notifier's connection is subscribed to
    inbox,      \* the messages published to each notifier, not yet taken
    nret,       \* what the last call made on each notifier directly returned
    ncalls,     \* history: the number of calls made on notifiers directly
    watchcalls  \* history: per notifier, the watch calls made on it

VARIABLES
    conn,           \* each client's connection: "open" or "closed"
    rpc,            \* each client's _read task: its position and message
    dpc,            \* each client's _watch_notifications task
    client_include, \* each client's _include
    client_exclude, \* each client's _exclude
    send_queue,     \* each client's _send_queue
    socket,         \* the messages sent on each client's websocket
    nmsgs           \* history: the number of inputs the peers have sent

VARIABLES
    implementations, \* the TaggerImplementations that Tagger() was given
    tagger,          \* the Tagger: its ordered taggers, or what __init__ raised
    evaluation,      \* evaluate: its tags so far and the calls it has made
    evaluated        \* what evaluate returned, or None

VARIABLES
    players,        \* a Players object
    players_json,   \* what its to_json returned, or None
    players_back    \* what Players.from_json made of that, or None

VARIABLES
    enumeration \* the enumeration all() has started: its cursor and its queue

redis == <<servers, hash, stags, tagidx, interest, iq, tmp, published>>
handle == <<pc, ppc, active, loc, ret>>
history == <<sethist, nsets, nsub>>
notifiers == <<subscriber, watched, inbox, nret, ncalls, watchcalls>>
clients == <<conn, rpc, dpc, client_include, client_exclude, send_queue,
             socket, nmsgs>>
tagging == <<implementations, tagger, evaluation, evaluated>>
codec == <<players, players_json, players_back>>
web == <<notifiers, clients, tagging, codec, enumeration>>
vars == <<redis, handle, history, web>>

NoLoc == [op |-> "none"]
NoRet == [op |-> "none"]

\* The state after construction: an empty Redis database, idle handles.
InitStatuses ==
    /\ servers = {}
    /\ hash = [k \in AddrKeys |-> NoHash]
    /\ stags = [k \in AddrKeys |-> {}]
    /\ tagidx = [t \in Tags |-> {}]
    /\ tmp = [h \in Handles |-> None]
    /\ published = {}

InitRedis ==
    /\ InitStatuses
    /\ interest = [k \in AddrKeys |-> 0]
    /\ iq = <<>>

InitHandles ==
    /\ pc = [h \in Handles |-> "idle"]
    /\ active = [h \in Handles |-> None]
    /\ loc = [h \in Handles |-> NoLoc]
    /\ ret = [h \in Handles |-> NoRet]

InitHistory ==
    /\ sethist = [k \in AddrKeys |-> <<>>]
    /\ nsets = 0
    /\ nsub = [k \in AddrKeys |-> 0]

\* Notifier.__init__: no subscriber; nothing is watched.
InitNotifiers ==
    /\ subscriber = [n \in Notifiers |-> FALSE]
    /\ watched = [n \in Notifiers |-> {}]
    /\ inbox = [n \in Notifiers |-> <<>>]
    /\ nret = [n \in Notifiers |-> NoRet]
    /\ ncalls = 0
    /\ watchcalls = [n \in Notifiers |-> {}]

\* Client.__init__, for the clients `running` that have connected: an empty
\* send queue, empty include and exclude sets, the three tasks of process
\* at their start. The other clients never connect.
InitClients(running) ==
    /\ conn = [c \in Clients |-> IF c \in running THEN "open" ELSE "closed"]
    /\ rpc = [c \in Clients |->
                [at |-> "recv", msg |-> [type |-> "none"], left |-> {}]]
    /\ dpc = [c \in Clients |-> [at |-> "start", note |-> None]]
    /\ client_include = [c \in Clients |-> {}]
    /\ client_exclude = [c \in Clients |-> {}]
    /\ send_queue = [c \in Clients |-> <<>>]
    /\ socket = [c \in Clients |-> <<>>]
    /\ nmsgs = 0

\* No Tagger has been constructed.
NoTagger == [err |-> "none", taggers |-> <<>>]

InitTagging ==
    /\ implementations = <<>>
    /\ tagger = NoTagger
    /\ evaluation = [tags |-> {}, calls |-> <<>>]
    /\ evaluated = None

\* No Players object is being converted.
InitCodec ==
    /\ players = EmptyPlayers
    /\ players_json = None
    /\ players_back = None

\* all() has not been called.
NoEnumeration ==
    [at |-> "none", start |-> {}, seen |-> {}, queue |-> <<>>,
     yielded |-> <<>>, done |-> FALSE]

InitEnumeration == enumeration = NoEnumeration

\* No WebSocket client is connected.
InitNoWeb ==
    /\ InitNotifiers /\ InitClients({}) /\ InitTagging /\ InitCodec
    /\ InitEnumeration

\* The first handle is the one of a service that calls the cache API (the
\* WebSocket service, the master-server synchroniser), the others are the
\* handles of pollers in interest-queue mode.
Init ==
    /\ InitRedis /\ InitHandles /\ InitHistory /\ InitNoWeb
    /\ ppc = [h \in Handles |-> IF h = 1 THEN "off" ELSE "interesting"]

\* The address keys of the subscribe calls a service has made, in order.
SubscribeSeqs == UNION {[1 .. n -> AddrKeys] : n \in 0 .. MaxSubs}

\* Every handle is the one of a poller, and the interest queue is as a
\* service left it that called subscribe for the addresses of s, one call
\* after the other: the i-th call pushed the item of the level its INCR
\* returned.
InitWorkers ==
    /\ InitStatuses /\ InitHandles /\ InitNoWeb
    /\ \E s \in SubscribeSeqs :
         /\ iq = [i \in 1 .. Len(s) |->
                    <<Cardinality({j \in 1 .. i : s[j] = s[i]}), s[i]>>]
         /\ interest = [k \in AddrKeys |->
                          Cardinality({j \in 1 .. Len(s) : s[j] = k})]
         /\ nsub = [k \in AddrKeys |->
                      Cardinality({j \in 1 .. Len(s) : s[j] = k})]
    /\ sethist = [k \in AddrKeys |-> <<>>]
    /\ nsets = 0
    /\ ppc = [h \in Handles |-> "interesting"]

\* No handle is a poller: the cache API is called in any order.
InitApi ==
    /\ InitRedis /\ InitHandles /\ InitHistory /\ InitNoWeb
    /\ ppc = [h \in Handles |-> "off"]

Idle(h) == pc[h] = "idle"

RECURSIVE Sum(_, _)
Sum(f, S) ==
    IF S = {} THEN 0
    ELSE LET x == CHOOSE y \in S : TRUE IN f[x] + Sum(f, S \ {x})

\* No other handle is inside a cache operation or holds an unread result.
Alone(h) == \A g \in Handles \ {h} : pc[g] = "idle"

\* The last two entries of a history.
Last2(s) == IF Len(s) > 2 THEN SubSeq(s, Len(s) - 1, Len(s)) ELSE s

\* ------------------------------------------------------- ensure and get

\* An SADD that adds nothing.
sadd_nothing(set, member) == set

\* SADD key member.
sadd(set, member) == set \cup {member}

\* An ensure that answers True whatever SADD returned.
ensure_always(h, a) ==
    /\ Idle(h)
    /\ servers' = sadd(servers, str(a))
    /\ ret' = [ret EXCEPT ![h] =
                 [op |-> "ensure", key |-> str(a), err |-> "", val |-> TRUE]]
    /\ pc' = [pc EXCEPT ![h] = "ret"]
    /\ UNCHANGED <<hash, stags, tagidx, interest, iq, tmp, published>>
    /\ UNCHANGED <<active, loc, history>>
    /\ UNCHANGED ppc
    /\ UNCHANGED web

\* AsyncCache.__ensure: SADD servers; True iff the address was added.
ensure(h, a) ==
    /\ Idle(h)
    /\ servers' = sadd(servers, str(a))
    /\ ret' = [ret EXCEPT ![h] =
                 [op |-> "ensure", key |-> str(a), err |-> "",
                  val |-> str(a) \notin servers]]
    /\ pc' = [pc EXCEPT ![h] = "ret"]
    /\ UNCHANGED <<hash, stags, tagidx, interest, iq, tmp, published>>
    /\ UNCHANGED <<active, loc, history>>
    /\ UNCHANGED ppc
    /\ UNCHANGED web

\* The Status __get reconstructs from the hash, the tag set and the
\* interest counter, which it reads in one MULTI block.
GetStatus(a) ==
    LET k == str(a)
        hash_ == hash[k]
    IN  Status(a, Some(interest[k]), hash_.name, hash_.map,
               IF hash_.application_id = None THEN None
               ELSE Some(StrToInt(hash_.application_id[1])),
               IF hash_.players = None THEN None
               ELSE Some(from_json(hash_.players[1])),
               stags[k])

\* A get that takes the tags with SPOP and so empties the tag set it reads.
get_spop(h, a) ==
    /\ Idle(h)
    /\ ret' = [ret EXCEPT ![h] =
                 [op |-> "get", key |-> str(a), err |-> "",
                  val |-> GetStatus(a)]]
    /\ pc' = [pc EXCEPT ![h] = "ret"]
    /\ stags' = [stags EXCEPT ![str(a)] = {}]
    /\ UNCHANGED <<servers, hash, tagidx, interest, iq, tmp, published>>
    /\ UNCHANGED <<active, loc, history>>
    /\ UNCHANGED ppc
    /\ UNCHANGED web

\* AsyncCache.__get
get(h, a) ==
    /\ Idle(h)
    /\ ret' = [ret EXCEPT ![h] =
                 [op |-> "get", key |-> str(a), err |-> "",
                  val |-> GetStatus(a)]]
    /\ pc' = [pc EXCEPT ![h] = "ret"]
    /\ UNCHANGED <<redis, active, loc, history>>
    /\ UNCHANGED ppc
    /\ UNCHANGED web

\* The caller takes the result of an operation and goes on.
Return(h) ==
    /\ pc[h] = "ret"
    /\ pc' = [pc EXCEPT ![h] = "idle"]
    /\ ret' = [ret EXCEPT ![h] = NoRet]
    /\ UNCHANGED <<redis, active, loc, history>>
    /\ UNCHANGED ppc
    /\ UNCHANGED web

\* ------------------------------------------------------------------- set

\* A cleanup that drops nothing from the reverse index.
removed_tags_none(old_tags, tags) == {}

\* A cleanup that drops the address from the index of every old tag.
removed_tags_all(old_tags, tags) == old_tags

\* __set: the tags of the old tag set that the new status drops.
removed_tags(old_tags, tags) == old_tags \ tags

\* A notification loop over every tag of the new status.
new_tags_all(old_tags, tags) == tags

\* __set: the tags of the new status that the old tag set did not hold.
new_tags(old_tags, tags) == tags \ old_tags

\* Notifier._channel(SERVER, address), as notify_server builds it.
ServerChannel(address) == <<"servers", str(address)>>

\* Notifier._channel(TAG, address), as notify_tag builds it: the channel
\* is named after the address, the tag parameter is not used.
TagChannel(tag, address) == <<"tags", str(address)>>

\* Notifier._channel(TAG, tag), as watch_tag builds it: the parts are
\* stringified, so that a tag that reads as an address names the channel
\* that notify_tag builds for that address.
WatchTagChannel(tag) ==
    <<"tags",
      IF tag \in AddressTags
      THEN str(CHOOSE a \in Addresses : AddressText(a) = tag)
      ELSE <<tag>>>>

\* PUBLISH channel payload; the payload is the stringified address.
Publish(channel, address) ==
    published \cup {<<channel[1], channel[2], str(address)>>}

\* Redis hands a published message to every connection that is subscribed
\* to its channel, in the order of publication.
Deliver(channel, address) ==
    inbox' = [n \in Notifiers |->
                IF channel \in watched[n]
                THEN Append(inbox[n], <<channel, str(address)>>)
                ELSE inbox[n]]

\* The publish of notify_server and notify_tag.
PublishTo(channel, address) ==
    /\ published' = Publish(channel, address)
    /\ Deliver(channel, address)

\* What a publish leaves alone outside the cache.
PublishFrame ==
    UNCHANGED <<subscriber, watched, nret, ncalls, watchcalls, clients,
                tagging, codec, enumeration>>

\* Where __set goes on after the server notification: the SREM loop over
\* the removed tags, then the notify_tag loop over the new tags.
SetGoesOn(rem, new) ==
    IF rem # {} THEN "set_srem" ELSE IF new # {} THEN "set_notify_tag"
    ELSE "idle"

\* What a step of __set leaves behind: its locals, or, when it was the
\* last step, nothing but the completed call in the history (which records
\* the calls made through the API, not those of the pollers).
SetStep(h, rem, new) ==
    /\ pc' = [pc EXCEPT ![h] = SetGoesOn(rem, new)]
    /\ loc' = [loc EXCEPT ![h] =
                 IF SetGoesOn(rem, new) = "idle" THEN NoLoc
                 ELSE [loc[h] EXCEPT !.rem = rem, !.new = new]]
    /\ sethist' = IF SetGoesOn(rem, new) = "idle" /\ ppc[h] = "off"
                  THEN [sethist EXCEPT ![loc[h].key] =
                          Last2(Append(@, loc[h].status))]
                  ELSE sethist

\* __set up to its first round trip: the hash and tags are encoded and the
\* address is ensured in the authoritative set.
set_ensure(h, status) ==
    /\ Idle(h)
    /\ servers' = sadd(servers, str(status.address))
    /\ loc' = [loc EXCEPT ![h] =
                 [op |-> "set", status |-> status,
                  key |-> str(status.address), hash_ |-> HashOf(status),
                  tags |-> status.tags, old_tags |-> {},
                  rem |-> {}, new |-> {}]]
    /\ pc' = [pc EXCEPT ![h] = "set_multi"]
    /\ UNCHANGED <<hash, stags, tagidx, interest, iq, tmp, published>>
    /\ UNCHANGED <<active, ret, sethist, nsub>>
    /\ UNCHANGED web

\* set, called through the cache API.
call_set(h, status) ==
    /\ ppc[h] = "off"
    /\ nsets < MaxSets
    /\ nsets' = nsets + 1
    /\ set_ensure(h, status)
    /\ UNCHANGED ppc

\* A block that writes the hash and the reverse index but leaves the tag
\* set of the address to a later command.
set_multi_hash_only(h) ==
    /\ pc[h] = "set_multi"
    /\ hash' = [hash EXCEPT ![loc[h].key] = loc[h].hash_]
    /\ tagidx' = [t \in Tags |->
                    IF t \in loc[h].tags THEN tagidx[t] \cup {loc[h].key}
                    ELSE tagidx[t]]
    /\ loc' = [loc EXCEPT ![h].old_tags = stags[loc[h].key]]
    /\ pc' = [pc EXCEPT ![h] = "set_notify"]
    /\ UNCHANGED <<servers, stags, interest, iq, tmp, published>>
    /\ UNCHANGED <<active, ret, history>>
    /\ UNCHANGED ppc
    /\ UNCHANGED web

\* A MULTI block that also writes the interest of the status to the
\* interest counter.
set_multi_interest(h) ==
    /\ pc[h] = "set_multi"
    /\ hash' = [hash EXCEPT ![loc[h].key] = loc[h].hash_]
    /\ stags' = [stags EXCEPT ![loc[h].key] = loc[h].tags]
    /\ tagidx' = [t \in Tags |->
                    IF t \in loc[h].tags THEN tagidx[t] \cup {loc[h].key}
                    ELSE tagidx[t]]
    /\ interest' = [interest EXCEPT ![loc[h].key] = loc[h].status.interest]
    /\ loc' = [loc EXCEPT ![h].old_tags = stags[loc[h].key]]
    /\ pc' = [pc EXCEPT ![h] = "set_notify"]
    /\ UNCHANGED <<servers, iq, tmp, published>>
    /\ UNCHANGED <<active, ret, history>>
    /\ UNCHANGED ppc
    /\ UNCHANGED web

\* The MULTI block of __set: the old tag set is read, the hash and the tag
\* set are deleted and rewritten, the address is added to the index of
\* every tag of the new status.
set_multi(h) ==
    /\ pc[h] = "set_multi"
    /\ hash' = [hash EXCEPT ![loc[h].key] = loc[h].hash_]
    /\ stags' = [stags EXCEPT ![loc[h].key] = loc[h].tags]
    /\ tagidx' = [t \in Tags |->
                    IF t \in loc[h].tags THEN tagidx[t] \cup {loc[h].key}
                    ELSE tagidx[t]]
    /\ loc' = [loc EXCEPT ![h].old_tags = stags[loc[h].key]]
    /\ pc' = [pc EXCEPT ![h] = "set_notify"]
    /\ UNCHANGED <<servers, interest, iq, tmp, published>>
    /\ UNCHANGED <<active, ret, history>>
    /\ UNCHANGED ppc
    /\ UNCHANGED web

\* notifier.notify_server(status.address); then the removed and the new
\* tags are computed from the old tag set the transaction read.
set_notify_server(h) ==
    /\ pc[h] = "set_notify"
    /\ PublishTo(ServerChannel(loc[h].status.address),
                 loc[h].status.address)
    /\ PublishFrame
    /\ SetStep(h, removed_tags(loc[h].old_tags, loc[h].tags),
               new_tags(loc[h].old_tags, loc[h].tags))
    /\ UNCHANGED <<servers, hash, stags, tagidx, interest, iq, tmp>>
    /\ UNCHANGED <<active, ret, nsets, nsub>>
    /\ UNCHANGED ppc

\* One SREM of the loop over removed_tags, outside the transaction.
set_srem(h) ==
    /\ pc[h] = "set_srem"
    /\ \E old_tag \in loc[h].rem :
         /\ tagidx' = [tagidx EXCEPT ![old_tag] = @ \ {loc[h].key}]
         /\ SetStep(h, loc[h].rem \ {old_tag}, loc[h].new)
    /\ UNCHANGED <<servers, hash, stags, interest, iq, tmp, published>>
    /\ UNCHANGED <<active, ret, nsets, nsub>>
    /\ UNCHANGED ppc
    /\ UNCHANGED web

\* One notify_tag of the loop over new_tags.
set_notify_tag(h) ==
    /\ pc[h] = "set_notify_tag"
    /\ \E tag \in loc[h].new :
         /\ PublishTo(TagChannel(tag, loc[h].status.address),
                      loc[h].status.address)
         /\ SetStep(h, {}, loc[h].new \ {tag})
    /\ PublishFrame
    /\ UNCHANGED <<servers, hash, stags, tagidx, interest, iq, tmp>>
    /\ UNCHANGED <<active, ret, nsets, nsub>>
    /\ UNCHANGED ppc

\* The steps of a set call after its first.
set_continue(h) ==
    \/ set_multi(h)
    \/ set_notify_server(h)
    \/ set_srem(h)
    \/ set_notify_tag(h)

\* ---------------------------------------------------------------- search

\* The members of the set at tags/<tag>; a key that does not exist is an
\* empty set.
TagSet(tag) == IF tag \in DOMAIN tagidx THEN tagidx[tag] ELSE {}

\* SINTERSTORE: the intersection of the sets at the given tag keys.
sinterstore(include) ==
    {k \in AddrKeys : \A t \in include : k \in TagSet(t)}

\* A difference that takes away only the members of every exclude set.
sdiff_of_intersection(first, exclude) ==
    {k \in first : \E t \in exclude : k \notin TagSet(t)}

\* SDIFF: the first set less the members of the sets at the other keys.
sdiff(first, exclude) ==
    {k \in first : \A t \in exclude : k \notin TagSet(t)}

\* The addresses search returns for the raw members: those that parse.
ParseAll(raw_addresses) ==
    {parse(k)[1] : k \in {r \in raw_addresses : parse(r) # None}}

\* A search that stores its intersection under one key for every call.
search_one_key(h, include, exclude) ==
    /\ Idle(h)
    /\ IF include = {}
       THEN /\ ret' = [ret EXCEPT ![h] =
                         [op |-> "search", include |-> include,
                          exclude |-> exclude, err |-> "", val |-> {}]]
            /\ pc' = [pc EXCEPT ![h] = "ret"]
            /\ UNCHANGED <<tmp, loc>>
       ELSE /\ tmp' = [g \in Handles |->
                         IF sinterstore(include) = {} THEN None
                         ELSE Some(sinterstore(include))]
            /\ loc' = [loc EXCEPT ![h] =
                         [op |-> "search", include |-> include,
                          exclude |-> exclude, raw_addresses |-> {}]]
            /\ pc' = [pc EXCEPT ![h] = "search_sdiff"]
            /\ UNCHANGED ret
    /\ UNCHANGED <<servers, hash, stags, tagidx, interest, iq, published>>
    /\ UNCHANGED <<active, history>>
    /\ UNCHANGED ppc
    /\ UNCHANGED web

\* search up to its first round trip; with no include key it returns the
\* empty set at once, otherwise the intersection is stored under the
\* random key (Redis keeps no key for an empty set).
search(h, include, exclude) ==
    /\ Idle(h)
    /\ IF include = {}
       THEN /\ ret' = [ret EXCEPT ![h] =
                         [op |-> "search", include |-> include,
                          exclude |-> exclude, err |-> "", val |-> {}]]
            /\ pc' = [pc EXCEPT ![h] = "ret"]
            /\ UNCHANGED <<tmp, loc>>
       ELSE /\ tmp' = [tmp EXCEPT ![h] =
                         IF sinterstore(include) = {} THEN None
                         ELSE Some(sinterstore(include))]
            /\ loc' = [loc EXCEPT ![h] =
                         [op |-> "search", include |-> include,
                          exclude |-> exclude, raw_addresses |-> {}]]
            /\ pc' = [pc EXCEPT ![h] = "search_sdiff"]
            /\ UNCHANGED ret
    /\ UNCHANGED <<servers, hash, stags, tagidx, interest, iq, published>>
    /\ UNCHANGED <<active, history>>
    /\ UNCHANGED ppc
    /\ UNCHANGED web

\* The SDIFF round trip of search. A key that does not exist is an empty
\* set.
search_sdiff(h) ==
    /\ pc[h] = "search_sdiff"
    /\ loc' = [loc EXCEPT ![h].raw_addresses =
                 sdiff(IF tmp[h] = None THEN {} ELSE tmp[h][1],
                       loc[h].exclude)]
    /\ pc' = [pc EXCEPT ![h] = "search_delete"]
    /\ UNCHANGED <<redis, active, ret, history>>
    /\ UNCHANGED ppc
    /\ UNCHANGED web

\* The finally clause of search deletes the random key; the raw members
\* are parsed and returned.
search_delete(h) ==
    /\ pc[h] = "search_delete"
    /\ tmp' = [tmp EXCEPT ![h] = None]
    /\ ret' = [ret EXCEPT ![h] =
                 [op |-> "search", include |-> loc[h].include,
                  exclude |-> loc[h].exclude, err |-> "",
                  val |-> ParseAll(loc[h].raw_addresses)]]
    /\ loc' = [loc EXCEPT ![h] = NoLoc]
    /\ pc' = [pc EXCEPT ![h] = "ret"]
    /\ UNCHANGED <<servers, hash, stags, tagidx, interest, iq, published>>
    /\ UNCHANGED <<active, history>>
    /\ UNCHANGED ppc
    /\ UNCHANGED web

search_continue(h) == search_sdiff(h) \/ search_delete(h)

\* A command of the try block of search is answered with an error: the
\* exception leaves the block through its finally clause. Redis has
\* stored the intersection, or nothing where SINTERSTORE was the command
\* that failed on an empty intersection.
search_raises(h) ==
    /\ pc[h] = "search_sdiff"
    /\ pc' = [pc EXCEPT ![h] = "search_finally"]
    /\ UNCHANGED <<redis, active, loc, ret, history>>
    /\ UNCHANGED ppc
    /\ UNCHANGED web

\* The finally clause of a search that failed: the random key is deleted
\* and the exception goes on to the caller.
search_finally(h) ==
    /\ pc[h] = "search_finally"
    /\ tmp' = [tmp EXCEPT ![h] = None]
    /\ ret' = [ret EXCEPT ![h] =
                 [op |-> "search", include |-> loc[h].include,
                  exclude |-> loc[h].exclude, err |-> "ErrorReply",
                  val |-> {}]]
    /\ loc' = [loc EXCEPT ![h] = NoLoc]
    /\ pc' = [pc EXCEPT ![h] = "ret"]
    /\ UNCHANGED <<servers, hash, stags, tagidx, interest, iq, published>>
    /\ UNCHANGED <<active, history>>
    /\ UNCHANGED ppc
    /\ UNCHANGED web

\* AsyncCache.all, with its queue read to the end: the members of the
\* authoritative set that parse as addresses.
all(h) ==
    /\ Idle(h)
    /\ ret' = [ret EXCEPT ![h] =
                 [op |-> "all", err |-> "", val |-> ParseAll(servers)]]
    /\ pc' = [pc EXCEPT ![h] = "ret"]
    /\ UNCHANGED <<redis, active, loc, history>>
    /\ UNCHANGED ppc
    /\ UNCHANGED web

\* AsyncCache.all: SSCAN opens a cursor on the authoritative set and a
\* task is started that fills a FiniteAsyncQueue from it. start holds the
\* members at the time of the SSCAN, seen those the cursor has returned.
all_sscan ==
    /\ enumeration.at = "none"
    /\ enumeration' = [NoEnumeration EXCEPT !.at = "open", !.start = servers]
    /\ UNCHANGED <<redis, handle, history>>
    /\ UNCHANGED <<notifiers, clients, tagging, codec>>

\* A cursor that reports its end before it has returned anything.
cursor_exhausted_at_once(cursor) == TRUE

\* The cursor is exhausted, fetchone returns None: SSCAN has returned
\* every member that was in the set during the whole iteration. A member
\* added after the SSCAN may have been returned or not. (SSCAN may return
\* a member more than once while the set is rehashed; the model returns
\* each member once.)
cursor_exhausted(cursor) == cursor.start \subseteq cursor.seen

\* FiniteAsyncQueue.__exit__: the end-of-queue item is put, the queue is
\* closed. None stands for the end-of-queue item.
queue_exit(queue) == Append(queue, None)

\* One turn of the loop of __fetch_addresses_from_cursor with an item: it
\* is decoded, parsed and put on the queue; an item that does not parse is
\* logged and left out.
fetch_put ==
    /\ enumeration.at = "open"
    /\ \E item \in servers \ enumeration.seen :
         enumeration' =
           [enumeration EXCEPT
              !.seen = @ \cup {item},
              !.queue = IF parse(item) # None
                        THEN Append(@, Some(parse(item)[1])) ELSE @]
    /\ UNCHANGED <<redis, handle, history>>
    /\ UNCHANGED <<notifiers, clients, tagging, codec>>

\* The last turn of the loop: fetchone returns None, the task returns and
\* leaves the `with queue` block.
fetch_end ==
    /\ enumeration.at = "open"
    /\ cursor_exhausted(enumeration)
    /\ enumeration' = [enumeration EXCEPT !.at = "closed",
                                          !.queue = queue_exit(@)]
    /\ UNCHANGED <<redis, handle, history>>
    /\ UNCHANGED <<notifiers, clients, tagging, codec>>

\* One turn of the loop of Cache.all_iterator that finds an item in the
\* queue: get_nowait returns it and it is yielded, or it is the
\* end-of-queue item, EndOfQueueError is raised and the iterator returns.
\* A turn that finds the queue empty (QueueEmpty) changes nothing.
all_iterator_next ==
    /\ enumeration.at # "none"
    /\ ~enumeration.done
    /\ enumeration.queue # <<>>
    /\ enumeration' =
         IF Head(enumeration.queue) = None
         THEN [enumeration EXCEPT !.queue = Tail(@), !.done = TRUE]
         ELSE [enumeration EXCEPT
                 !.queue = Tail(@),
                 !.yielded = Append(@, Head(enumeration.queue)[1])]
    /\ UNCHANGED <<redis, handle, history>>
    /\ UNCHANGED <<notifiers, clients, tagging, codec>>

\* -------------------------------------------------------- interest queue

\* _encode_iq_item: the JSON array [interest, str(address)].
encode_iq_item(level, address) == <<level, str(address)>>

\* _decode_iq_item: the pair (interest, Address); None stands for the
\* ValueError of an item that is no array of length 2 or whose address
\* does not parse.
decode_iq_item(encoded) ==
    IF Len(encoded) = 2 /\ parse(encoded[2]) # None
    THEN Some(<<encoded[1], parse(encoded[2])[1]>>)
    ELSE None

\* A push that adds the item at the head of the list.
lpush(list, item) == <<item>> \o list

\* RPUSH: the item is added at the tail of the list.
rpush(list, item) == Append(list, item)

\* DECR in the place of INCR.
decr(value) == value - 1

\* INCR: the new value of the counter, which the command returns.
incr(value) == value + 1

\* An interest level read from the counter again when the item is pushed.
subscribe_level_reread(h) == interest[str(loc[h].address)]

\* The interest level subscribe writes into its queue item: the value its
\* own INCR returned.
subscribe_level(h) == loc[h].interest

\* Staleness checks that are strict, that never pass and that always pass.
reenqueue_strict(current, level) == current > level

reenqueue_never(current, level) == FALSE

reenqueue_always(current, level) == TRUE

\* update_interest_queue: the item is pushed again iff the current
\* interest is at least the interest the item was enqueued with.
reenqueue(current, level) == current >= level

\* subscribe up to its first round trip: INCR of the interest counter.
subscribe(h, address) ==
    /\ Idle(h)
    /\ Sum(nsub, AddrKeys) < MaxSubs
    /\ nsub' = [nsub EXCEPT ![str(address)] = @ + 1]
    /\ interest' = [interest EXCEPT ![str(address)] = incr(@)]
    /\ loc' = [loc EXCEPT ![h] =
                 [op |-> "subscribe", address |-> address,
                  interest |-> incr(interest[str(address)])]]
    /\ pc' = [pc EXCEPT ![h] = "subscribe_push"]
    /\ UNCHANGED <<servers, hash, stags, tagidx, iq, tmp, published>>
    /\ UNCHANGED <<active, ret, sethist, nsets>>
    /\ UNCHANGED ppc
    /\ UNCHANGED web

\* The __push_iq round trip of subscribe.
subscribe_push(h) ==
    /\ pc[h] = "subscribe_push"
    /\ iq' = rpush(iq, encode_iq_item(subscribe_level(h), loc[h].address))
    /\ loc' = [loc EXCEPT ![h] = NoLoc]
    /\ pc' = [pc EXCEPT ![h] = "idle"]
    /\ UNCHANGED <<servers, hash, stags, tagidx, interest, tmp, published>>
    /\ UNCHANGED <<active, ret, history>>
    /\ UNCHANGED ppc
    /\ UNCHANGED web

\* A handle that never notices its active item.
has_active_never(h) == FALSE

\* interesting must not be called on a handle that holds an active item.
has_active(h) == active[h] # None

\* interesting: CacheError when the handle holds an active item; otherwise
\* LPOP until an item decodes, EmptyQueueError when the list runs out.
RECURSIVE lpop_decoded(_)
lpop_decoded(list) ==
    IF list = <<>> THEN [item |-> None, rest |-> <<>>]
    ELSE IF decode_iq_item(Head(list)) # None
         THEN [item |-> decode_iq_item(Head(list)), rest |-> Tail(list)]
         ELSE lpop_decoded(Tail(list))

\* What interesting does to the queue, the active item and its result.
interesting(h) ==
    IF has_active(h)
    THEN /\ ret' = [ret EXCEPT ![h] =
                      [op |-> "interesting", err |-> "CacheError"]]
         /\ UNCHANGED <<iq, active>>
    ELSE /\ iq' = lpop_decoded(iq).rest
         /\ active' = [active EXCEPT ![h] = lpop_decoded(iq).item]
         /\ ret' = [ret EXCEPT ![h] =
                      IF lpop_decoded(iq).item = None
                      THEN [op |-> "interesting", err |-> "EmptyQueueError"]
                      ELSE [op |-> "interesting", err |-> "",
                            val |-> lpop_decoded(iq).item[1][2]]]

\* interesting, called through the cache API.
call_interesting(h) ==
    /\ ppc[h] = "off"
    /\ Idle(h)
    /\ interesting(h)
    /\ pc' = [pc EXCEPT ![h] = "ret"]
    /\ UNCHANGED <<servers, hash, stags, tagidx, interest, tmp, published>>
    /\ UNCHANGED <<ppc, loc, history>>
    /\ UNCHANGED web

\* update_interest_queue up to its first round trip: the active item is
\* unpacked (a TypeError when there is none), the current status is read
\* and the item is either pushed again or dropped; when it is dropped the
\* active marker is cleared at once.
update_interest_queue(h) ==
    /\ Idle(h)
    /\ IF active[h] = None
       THEN /\ ret' = [ret EXCEPT ![h] =
                         [op |-> "update_interest_queue",
                          err |-> "TypeError"]]
            /\ pc' = [pc EXCEPT ![h] = "ret"]
            /\ UNCHANGED <<active, loc>>
       ELSE IF reenqueue(GetStatus(active[h][1][2]).interest,
                         active[h][1][1])
       THEN /\ pc' = [pc EXCEPT ![h] = "update_push"]
            /\ loc' = [loc EXCEPT ![h] = [op |-> "update_interest_queue"]]
            /\ UNCHANGED <<active, ret>>
       ELSE /\ active' = [active EXCEPT ![h] = None]
            /\ UNCHANGED <<pc, loc, ret>>
    /\ UNCHANGED <<redis, history>>
    /\ UNCHANGED web

\* update_interest_queue, called through the cache API.
call_update_interest_queue(h) ==
    /\ ppc[h] = "off"
    /\ update_interest_queue(h)
    /\ UNCHANGED ppc

\* The __push_iq round trip of update_interest_queue, after which the
\* active marker is cleared.
update_push(h) ==
    /\ pc[h] = "update_push"
    /\ iq' = rpush(iq, encode_iq_item(active[h][1][1], active[h][1][2]))
    /\ active' = [active EXCEPT ![h] = None]
    /\ loc' = [loc EXCEPT ![h] = NoLoc]
    /\ pc' = [pc EXCEPT ![h] = "idle"]
    /\ UNCHANGED <<servers, hash, stags, tagidx, interest, tmp, published>>
    /\ UNCHANGED <<ret, history>>
    /\ UNCHANGED ppc
    /\ UNCHANGED web

\* The interest counter of an address drops to 0. No operation of the cache
\* lowers the counter: this is a write to the Redis key from outside.
interest_drops(k) ==
    /\ interest[k] > 0
    /\ interest' = [interest EXCEPT ![k] = 0]
    /\ UNCHANGED <<servers, hash, stags, tagidx, iq, tmp, published>>
    /\ UNCHANGED <<handle, history>>
    /\ UNCHANGED web

\* ---------------------------------------------------------------- poller

\* The address the handle's active item names.
active_address(h) == active[h][1][2]

\* _interest_queue_iterator enters interesting_context: interesting() is
\* called; on EmptyQueueError the iterator ends and _watch starts a new
\* one, otherwise the address is handed to the loop body.
poller_interesting(h) ==
    /\ ppc[h] = "interesting"
    /\ Idle(h)
    /\ interesting(h)
    /\ ppc' = [ppc EXCEPT ![h] =
                 IF lpop_decoded(iq).item = None THEN "interesting"
                 ELSE "poll"]
    /\ UNCHANGED <<servers, hash, stags, tagidx, interest, tmp, published>>
    /\ UNCHANGED <<pc, loc, history>>
    /\ UNCHANGED web

\* A poll error after which the address is added to the authoritative set.
poll_error_ensures(h) ==
    /\ ppc[h] = "poll"
    /\ ppc' = [ppc EXCEPT ![h] = "update"]
    /\ servers' = servers \cup {str(active[h][1][2])}
    /\ UNCHANGED <<hash, stags, tagidx, interest, iq, tmp, published>>
    /\ UNCHANGED <<pc, active, loc, ret, history>>
    /\ UNCHANGED web

\* A poll error that ends the turn of the loop at once: the next address
\* is asked for without update_interest_queue.
poll_error_skips(h) ==
    /\ ppc[h] = "poll"
    /\ ppc' = [ppc EXCEPT ![h] = "interesting"]
    /\ UNCHANGED <<redis, pc, active, loc, ret, history>>
    /\ UNCHANGED web

\* poll raises PollError: the error is logged and nothing is set.
poll_error(h) ==
    /\ ppc[h] = "poll"
    /\ ppc' = [ppc EXCEPT ![h] = "update"]
    /\ UNCHANGED <<redis, pc, active, loc, ret, history>>
    /\ UNCHANGED web

\* poll returns a status for the address and _watch calls cache.set.
poll_set(h, status) ==
    /\ ppc[h] = "poll"
    /\ status.address = active_address(h)
    /\ set_ensure(h, status)
    /\ ppc' = [ppc EXCEPT ![h] = "update"]
    /\ UNCHANGED nsets

\* The loop asks for the next address: interesting_context is left and
\* update_interest_queue is called.
poller_update(h) ==
    /\ ppc[h] = "update"
    /\ update_interest_queue(h)
    /\ ppc' = [ppc EXCEPT ![h] = "interesting"]

\* -------------------------------------------------------------- notifier

\* Notifier.watching
watching(n) == subscriber[n]

\* Notifier._get_subscriber: the connection is put into pub/sub mode, and
\* the subscriber is kept for good.
get_subscriber(n) == subscriber' = [subscriber EXCEPT ![n] = TRUE]

\* SUBSCRIBE and UNSUBSCRIBE of one channel on a connection.
subscribe_channel(channels, channel) == channels \cup {channel}

\* An UNSUBSCRIBE that subscribes.
unsubscribe_channel_adds(channels, channel) == channels \cup {channel}

unsubscribe_channel(channels, channel) == channels \ {channel}

\* Notifier.notify_server: NotifierError in watching mode, else PUBLISH.
notify_server(n, address) ==
    /\ IF watching(n) THEN UNCHANGED <<published, inbox>>
       ELSE PublishTo(ServerChannel(address), address)
    /\ UNCHANGED <<subscriber, watched>>

\* Notifier.notify_tag: NotifierError in watching mode, else PUBLISH.
notify_tag(n, tag, address) ==
    /\ IF watching(n) THEN UNCHANGED <<published, inbox>>
       ELSE PublishTo(TagChannel(tag, address), address)
    /\ UNCHANGED <<subscriber, watched>>

\* What notify_server and notify_tag raise.
notify_error(n) == IF watching(n) THEN "NotifierError" ELSE ""

\* Notifier.watch_server
watch_server(n, address) ==
    /\ get_subscriber(n)
    /\ watched' = [watched EXCEPT ![n] =
                     subscribe_channel(@, ServerChannel(address))]
    /\ UNCHANGED <<published, inbox>>

\* Notifier.unwatch_server
unwatch_server(n, address) ==
    /\ get_subscriber(n)
    /\ watched' = [watched EXCEPT ![n] =
                     unsubscribe_channel(@, ServerChannel(address))]
    /\ UNCHANGED <<published, inbox>>

\* Notifier.watch_tag
watch_tag(n, tag) ==
    /\ get_subscriber(n)
    /\ watched' = [watched EXCEPT ![n] =
                     subscribe_channel(@, WatchTagChannel(tag))]
    /\ UNCHANGED <<published, inbox>>

\* Notifier.unwatch_tag: the channel name is built from the name
\* `address`, which the method does not define: NameError, before the
\* subscriber is asked for.
unwatch_tag(n, tag) == UNCHANGED <<subscriber, watched, published, inbox>>

\* What Notifier.watch returns for a published message: the kind, taken
\* from the channel name, and the parsed address.
watch_result(message) == <<message[1][1], parse(message[2])[1]>>

\* The calls made on a notifier directly, by whoever got it from
\* AsyncCache.notifier(); the results are kept for the caller.
NotifierCall(n, op, err, val, is_watch) ==
    /\ ncalls < MaxCalls
    /\ ncalls' = ncalls + 1
    /\ nret' = [nret EXCEPT ![n] = [op |-> op, err |-> err, val |-> val]]
    /\ watchcalls' = [watchcalls EXCEPT ![n] =
                        IF is_watch THEN @ \cup {op} ELSE @]
    /\ UNCHANGED <<servers, hash, stags, tagidx, interest, iq, tmp>>
    /\ UNCHANGED <<handle, history, clients, tagging, codec, enumeration>>

call_notify_server(n, address) ==
    /\ notify_server(n, address)
    /\ NotifierCall(n, "notify_server", notify_error(n),
                    ServerChannel(address), FALSE)

call_notify_tag(n, tag, address) ==
    /\ notify_tag(n, tag, address)
    /\ NotifierCall(n, "notify_tag", notify_error(n),
                    TagChannel(tag, address), FALSE)

call_watch_server(n, address) ==
    /\ watch_server(n, address)
    /\ NotifierCall(n, "watch_server", "", None, TRUE)

call_unwatch_server(n, address) ==
    /\ unwatch_server(n, address)
    /\ NotifierCall(n, "unwatch_server", "", None, TRUE)

call_watch_tag(n, tag) ==
    /\ watch_tag(n, tag)
    /\ NotifierCall(n, "watch_tag", "", None, TRUE)

call_unwatch_tag(n, tag) ==
    /\ unwatch_tag(n, tag)
    /\ NotifierCall(n, "unwatch_tag", "NameError", None, TRUE)

\* Notifier.watch: the subscriber is asked for, then the next published
\* message is waited for; a wait that finds no message is given up by the
\* caller without a result.
call_watch(n) ==
    /\ get_subscriber(n)
    /\ inbox' = [inbox EXCEPT ![n] = IF @ = <<>> THEN @ ELSE Tail(@)]
    /\ UNCHANGED <<published, watched>>
    /\ NotifierCall(n, "watch", "",
                    IF inbox[n] = <<>> THEN None
                    ELSE Some(watch_result(Head(inbox[n]))), TRUE)

\* --------------------------------------------------------------- gateway

\* The attributes a cache Status has.
StatusAttributes ==
    {"address", "interest", "name", "map", "application_id", "players",
     "tags"}

\* The attributes of the status that Client._send_status reads.
SendStatusReads ==
    {"address", "name", "map", "tags", "players", "country", "latitude",
     "longitude"}

\* What _send_status raises after its cache.get: AttributeError for the
\* first attribute it reads that a Status does not have.
send_status_error ==
    IF SendStatusReads \subseteq StatusAttributes THEN ""
    ELSE "AttributeError"

\* The entity of a status message.
status_entity(status) ==
    [type |-> "status",
     ip |-> status.address.ip, port |-> status.address.port,
     name |-> IF status.name = None THEN "" ELSE status.name[1],
     map |-> IF status.map = None THEN "" ELSE status.map[1],
     tags |-> status.tags,
     players |-> [current |-> status.players.current,
                  max |-> status.players.max,
                  bots |-> status.players.bots,
                  scores |-> [i \in 1 .. Len(status.players.scores) |->
                                <<status.players.scores[i][1],
                                  status.players.scores[i][2],
                                  TotalSeconds(status.players.scores[i][3])>>]]]

\* The entity of a match message.
match_entity(address) ==
    [type |-> "match", ip |-> address.ip, port |-> address.port]

\* The message _read sends for a MessageError.
error_entity == [type |-> "error"]

\* Client.send: the message is put on the send queue.
send(queue, message) == Append(queue, message)

\* Client._send_status(address) for client c: cache.get, the entity, the
\* location attributes, send.
send_status(c, address) ==
    send_queue' = [send_queue EXCEPT ![c] =
                     IF send_status_error = ""
                     THEN send(@, status_entity(GetStatus(address)))
                     ELSE @]

\* A search that leaves the excluded tags out of account.
SearchIncluded(include, exclude) ==
    IF include = {} THEN {}
    ELSE ParseAll(sinterstore(include))

\* What cache.search(include, exclude) returns to the client.
SearchResult(include, exclude) ==
    IF include = {} THEN {}
    ELSE ParseAll(sdiff(sinterstore(include), exclude))

\* The orders in which the members of a set are iterated.
Orderings(S) ==
    {f \in [1 .. Cardinality(S) -> S] :
        \A i, j \in 1 .. Cardinality(S) : f[i] = f[j] => i = j}

\* The messages a peer sends: subscribe and unsubscribe with an address
\* entity, query with include and exclude tag lists that share no tag, and
\* a message of a type that has no handler.
SubscribeMessages == {[type |-> "subscribe", address |-> a] : a \in Addresses}
UnsubscribeMessages ==
    {[type |-> "unsubscribe", address |-> a] : a \in Addresses}
QueryMessages ==
    {m \in [type : {"query"}, include : SUBSET Tags,
             exclude : {{}, {"mode:cp"}}] : m.include \cap m.exclude = {}}
UnknownMessages == {[type |-> "ping"]}

\* Queries whose include list holds a tag that reads as an address; the
\* include and exclude lists may share a tag.
MatchQueries ==
    [type : {"query"},
     include : {{AddressText([ip |-> "192.0.2.1", port |-> 27015])},
                {"tf2", AddressText([ip |-> "192.0.2.1", port |-> 27015])}},
     exclude : {{}, {"tf2"}}]

\* A message as the peer sent it: whether the text is a JSON document, the
\* fields of its envelope, its type, and the ip and port of its entity with
\* the JSON types they have ("missing" when the field is absent).
Raw(json, fields, mtype, ip_is, ip, port_is, port) ==
    [type |-> "raw", json |-> json, fields |-> fields, mtype |-> mtype,
     ip_is |-> ip_is, ip |-> ip, port_is |-> port_is, port |-> port]

\* The messages that are not well formed: text that is no JSON, envelopes
\* that lack a field, a type that has no handler, and address entities
\* with a missing field, a field of the wrong type, an invalid IP address
\* or a port outside 1..65535.
MalformedMessages ==
    { Raw(FALSE, {}, "", "missing", "", "missing", 0),
      Raw(TRUE, {"entity"}, "", "str", "192.0.2.1", "int", 27015),
      Raw(TRUE, {"type"}, "subscribe", "missing", "", "missing", 0),
      Raw(TRUE, {"type", "entity"}, "status", "str", "192.0.2.1", "int",
          27015),
      Raw(TRUE, {"type", "entity"}, "subscribe", "str", "192.0.2.1",
          "missing", 0),
      Raw(TRUE, {"type", "entity"}, "subscribe", "int", "", "int", 27015),
      Raw(TRUE, {"type", "entity"}, "unsubscribe", "str", "192.0.2.1",
          "str", 27015),
      Raw(TRUE, {"type", "entity"}, "subscribe", "str", "999.0.2.1", "int",
          27015),
      Raw(TRUE, {"type", "entity"}, "subscribe", "str", "192.0.2.1", "int",
          PortMin - 1),
      Raw(TRUE, {"type", "entity"}, "unsubscribe", "str", "192.0.2.2",
          "int", PortMax + 1) }

\* The message types Client has a _handle_ coroutine for.
Handlers == {"subscribe", "unsubscribe", "query"}

\* The schema of address_entity: ip is a string and port an integer.
address_schema(message) == message.ip_is = "str" /\ message.port_is = "int"

\* Address.__init__ raises no AddressError: the ip is a dotted quad (of
\* the strings the peers send, those of IPs are) and the port is in range.
address_init(message) == message.ip \in IPs /\ ValidPort(message.port)

\* The MessageError that _dispatch raises for a message, "" for none:
\* json.loads, the envelope schema, the handler lookup, the schema of the
\* handler's entity (a ValueError of Address is a validation failure).
message_error(message) ==
    IF ~message.json THEN "JSON"
    ELSE IF ~({"type", "entity"} \subseteq message.fields) THEN "Envelope"
    ELSE IF message.mtype \notin Handlers THEN "Unknown message type"
    ELSE IF ~(address_schema(message) /\ address_init(message)) THEN "Entity"
    ELSE ""

\* A _read without its except clause: the MessageError ends the task.
read_raises == "failed"

\* _read catches the MessageError of _dispatch and goes on to receive the
\* next message.
read_except == "recv"

\* The reader is at position `at` of handling the message it received;
\* `left` are the tags a query has still to watch.
Reader(at, msg, left) == [at |-> at, msg |-> msg, left |-> left]

\* The notification task is at position `at`, with the notification that
\* watch() returned.
Watcher(at, note) == [at |-> at, note |-> note]

Open(c) == conn[c] = "open"

\* What a step of a client leaves alone: the cache, and the records of
\* the calls made on notifiers directly.
ClientFrame ==
    /\ UNCHANGED <<servers, hash, stags, tagidx, interest, iq, tmp>>
    /\ UNCHANGED <<handle, history>>
    /\ UNCHANGED <<nret, ncalls, watchcalls, tagging, codec, enumeration>>

\* _read: a message is received from the peer.
read_recv(c, message) ==
    /\ Open(c)
    /\ rpc[c].at = "recv"
    /\ nmsgs < MaxMsgs
    /\ nmsgs' = nmsgs + 1
    /\ rpc' = [rpc EXCEPT ![c] = Reader("dispatch", message, {})]
    /\ UNCHANGED <<conn, dpc, client_include, client_exclude, send_queue,
                   socket>>
    /\ UNCHANGED <<subscriber, watched, inbox, published>>
    /\ ClientFrame

\* _read: recv returns None when the peer has disconnected, and the
\* task returns. The disconnection counts as an input of the peer.
read_disconnected(c) ==
    /\ Open(c)
    /\ rpc[c].at = "recv"
    /\ nmsgs < MaxMsgs
    /\ nmsgs' = nmsgs + 1
    /\ rpc' = [rpc EXCEPT ![c].at = "done"]
    /\ UNCHANGED <<conn, dpc, client_include, client_exclude, send_queue,
                   socket>>
    /\ UNCHANGED <<subscriber, watched, inbox, published>>
    /\ ClientFrame

\* _dispatch finds no handler: MessageError, which _read answers with an
\* error message.
dispatch_unknown(c) ==
    /\ Open(c)
    /\ rpc[c].at = "dispatch"
    /\ rpc[c].msg \in UnknownMessages
    /\ send_queue' = [send_queue EXCEPT ![c] = send(@, error_entity)]
    /\ rpc' = [rpc EXCEPT ![c].at = "recv"]
    /\ UNCHANGED <<conn, dpc, client_include, client_exclude, socket, nmsgs>>
    /\ UNCHANGED <<subscriber, watched, inbox, published>>
    /\ ClientFrame

\* _dispatch raises MessageError for the message as the peer sent it, and
\* _read answers with an error message.
dispatch_error(c) ==
    /\ Open(c)
    /\ rpc[c].at = "dispatch"
    /\ rpc[c].msg.type = "raw"
    /\ message_error(rpc[c].msg) # ""
    /\ send_queue' = [send_queue EXCEPT ![c] = send(@, error_entity)]
    /\ rpc' = [rpc EXCEPT ![c].at = read_except]
    /\ UNCHANGED <<conn, dpc, client_include, client_exclude, socket, nmsgs>>
    /\ UNCHANGED <<subscriber, watched, inbox, published>>
    /\ ClientFrame

\* _handle_subscribe up to its _send_status: notifier.watch_server.
handle_subscribe(c) ==
    /\ Open(c)
    /\ rpc[c].at = "dispatch"
    /\ rpc[c].msg \in SubscribeMessages
    /\ watch_server(c, rpc[c].msg.address)
    /\ rpc' = [rpc EXCEPT ![c].at = "send_status"]
    /\ UNCHANGED <<conn, dpc, client_include, client_exclude, send_queue,
                   socket, nmsgs>>
    /\ ClientFrame

\* The _send_status of _handle_subscribe; an exception other than
\* MessageError ends the _read task.
subscribe_send_status(c) ==
    /\ Open(c)
    /\ rpc[c].at = "send_status"
    /\ send_status(c, rpc[c].msg.address)
    /\ rpc' = [rpc EXCEPT ![c].at =
                 IF send_status_error = "" THEN "recv" ELSE "failed"]
    /\ UNCHANGED <<conn, dpc, client_include, client_exclude, socket, nmsgs>>
    /\ UNCHANGED <<subscriber, watched, inbox, published>>
    /\ ClientFrame

\* _handle_unsubscribe: notifier.unwatch_server.
handle_unsubscribe(c) ==
    /\ Open(c)
    /\ rpc[c].at = "dispatch"
    /\ rpc[c].msg \in UnsubscribeMessages
    /\ unwatch_server(c, rpc[c].msg.address)
    /\ rpc' = [rpc EXCEPT ![c].at = "recv"]
    /\ UNCHANGED <<conn, dpc, client_include, client_exclude, send_queue,
                   socket, nmsgs>>
    /\ ClientFrame

\* _handle_query up to its watch loop: the first unwatch_tag of a tag
\* that is no longer included raises NameError, which ends the _read task
\* before the new sets are recorded; with no such tag the new include and
\* exclude sets are recorded.
handle_query(c) ==
    /\ Open(c)
    /\ rpc[c].at = "dispatch"
    /\ rpc[c].msg \in QueryMessages \cup MatchQueries
    /\ IF client_include[c] \ rpc[c].msg.include # {}
       THEN /\ \E old_tag \in client_include[c] \ rpc[c].msg.include :
                 unwatch_tag(c, old_tag)
            /\ rpc' = [rpc EXCEPT ![c].at = "failed"]
            /\ UNCHANGED <<client_include, client_exclude>>
       ELSE /\ client_include' =
                 [client_include EXCEPT ![c] = rpc[c].msg.include]
            /\ client_exclude' =
                 [client_exclude EXCEPT ![c] = rpc[c].msg.exclude]
            /\ rpc' = [rpc EXCEPT ![c].at = "query_watch",
                                  ![c].left = rpc[c].msg.include]
            /\ UNCHANGED <<subscriber, watched, published, inbox>>
    /\ UNCHANGED <<conn, dpc, send_queue, socket, nmsgs>>
    /\ ClientFrame

\* One watch_tag of the loop over the included tags.
query_watch_tag(c) ==
    /\ Open(c)
    /\ rpc[c].at = "query_watch"
    /\ \E tag \in rpc[c].left :
         /\ watch_tag(c, tag)
         /\ rpc' = [rpc EXCEPT ![c].left = @ \ {tag}]
    /\ UNCHANGED <<conn, dpc, client_include, client_exclude, send_queue,
                   socket, nmsgs>>
    /\ ClientFrame

\* The search of _handle_query and one match message per address found.
query_search(c) ==
    /\ Open(c)
    /\ rpc[c].at = "query_watch"
    /\ rpc[c].left = {}
    /\ \E addresses \in
            Orderings(SearchResult(client_include[c], client_exclude[c])) :
         send_queue' = [send_queue EXCEPT ![c] =
                          @ \o [i \in DOMAIN addresses |->
                                  match_entity(addresses[i])]]
    /\ rpc' = [rpc EXCEPT ![c].at = "recv"]
    /\ UNCHANGED <<conn, dpc, client_include, client_exclude, socket, nmsgs>>
    /\ UNCHANGED <<subscriber, watched, inbox, published>>
    /\ ClientFrame

\* _write: the head of the send queue is sent on the websocket.
write(c) ==
    /\ Open(c)
    /\ send_queue[c] # <<>>
    /\ socket' = [socket EXCEPT ![c] = Append(@, Head(send_queue[c]))]
    /\ send_queue' = [send_queue EXCEPT ![c] = Tail(@)]
    /\ UNCHANGED <<conn, rpc, dpc, client_include, client_exclude, nmsgs>>
    /\ UNCHANGED <<subscriber, watched, inbox, published>>
    /\ ClientFrame

\* _watch_notifications enters notifier.watch for the first time: the
\* notifier gets its subscriber.
watch_start(c) ==
    /\ Open(c)
    /\ dpc[c].at = "start"
    /\ get_subscriber(c)
    /\ dpc' = [dpc EXCEPT ![c].at = "watch"]
    /\ UNCHANGED <<conn, rpc, client_include, client_exclude, send_queue,
                   socket, nmsgs>>
    /\ UNCHANGED <<watched, inbox, published>>
    /\ ClientFrame

\* notifier.watch returns the next published message.
watch_next(c) ==
    /\ Open(c)
    /\ dpc[c].at = "watch"
    /\ inbox[c] # <<>>
    /\ inbox' = [inbox EXCEPT ![c] = Tail(@)]
    /\ dpc' = [dpc EXCEPT ![c] =
                 Watcher("notified", Some(watch_result(Head(inbox[c]))))]
    /\ UNCHANGED <<conn, rpc, client_include, client_exclude, send_queue,
                   socket, nmsgs>>
    /\ UNCHANGED <<subscriber, watched, published>>
    /\ ClientFrame

\* _watch_notifications handles the notification: a status for a SERVER
\* notification; for a TAG notification a match, when the tags of the
\* server are among the included ones and none of them is excluded.
watch_notified(c) ==
    /\ Open(c)
    /\ dpc[c].at = "notified"
    /\ LET update == dpc[c].note[1][1]
           address == dpc[c].note[1][2]
           status == GetStatus(address)
       IN  IF update = "servers"
           THEN /\ send_status(c, address)
                /\ dpc' = [dpc EXCEPT ![c] =
                             IF send_status_error = ""
                             THEN Watcher("watch", None)
                             ELSE Watcher("failed", dpc[c].note)]
           ELSE /\ send_queue' = [send_queue EXCEPT ![c] =
                       IF /\ status.tags \subseteq client_include[c]
                          /\ status.tags \cap client_exclude[c] = {}
                       THEN send(@, match_entity(address))
                       ELSE @]
                /\ dpc' = [dpc EXCEPT ![c] = Watcher("watch", None)]
    /\ UNCHANGED <<conn, rpc, client_include, client_exclude, socket, nmsgs>>
    /\ UNCHANGED <<subscriber, watched, inbox, published>>
    /\ ClientFrame

\* A close that leaves the connection of the notifier subscribed.
close_nothing(channels) == channels

\* Notifier.close: the Redis connection is closed, and with it its
\* subscriptions end.
close(channels) == {}

\* A task of process has ended.
TaskEnded(c) == rpc[c].at \in {"done", "failed"} \/ dpc[c].at = "failed"

\* process returns when the first task has ended and cancels the others;
\* Service.__call__ closes the notifier, whose connection loses its
\* subscriptions, and the websocket is closed.
process_returns(c) ==
    /\ Open(c)
    /\ TaskEnded(c)
    /\ conn' = [conn EXCEPT ![c] = "closed"]
    /\ watched' = [watched EXCEPT ![c] = close(@)]
    /\ inbox' = [inbox EXCEPT ![c] = <<>>]
    /\ UNCHANGED <<rpc, dpc, client_include, client_exclude, send_queue,
                   socket, nmsgs>>
    /\ UNCHANGED <<subscriber, published>>
    /\ ClientFrame

\* The steps the tasks of a client take by themselves.
ClientStep(c) ==
    \/ dispatch_unknown(c)
    \/ dispatch_error(c)
    \/ handle_subscribe(c)
    \/ subscribe_send_status(c)
    \/ handle_unsubscribe(c)
    \/ handle_query(c)
    \/ query_watch_tag(c)
    \/ query_search(c)
    \/ write(c)
    \/ watch_start(c)
    \/ watch_next(c)
    \/ watch_notified(c)
    \/ process_returns(c)

\* ---------------------------------------------------------------- tagger

\* The tags that have an implementation.
RuleTags == {"tf2", "mode:cp", "mode:koth"}

\* TaggerImplementation(tag, implementation, dependancies); what the
\* implementation returns is decided when evaluate calls it.
TaggerImplementation(tag, dependancies) ==
    [tag |-> tag, dependancies |-> dependancies]

\* The implementations that Tagger() can be given.
Implementations ==
    {TaggerImplementation(tag, deps) :
        tag \in RuleTags, deps \in SUBSET RuleTags}

\* Tagger.__init__: a tag is in the dictionary already.
Duplicate(taggers) ==
    \E i, j \in DOMAIN taggers : i < j /\ taggers[i].tag = taggers[j].tag

\* The keys of the tags dictionary.
TagsOf(taggers) == {taggers[i].tag : i \in DOMAIN taggers}

\* find_dependancies: some named dependency is not among the tags.
Unresolved(taggers) ==
    \E i \in DOMAIN taggers : taggers[i].dependancies \ TagsOf(taggers) # {}

\* The names that are bound where find_dependancies raises.
FindDependanciesScope == {"self", "taggers", "tags", "dependancies", "dep"}

\* The names the raise statement of find_dependancies reads for its
\* message.
FindDependanciesReads == {"dep_tag", "tagger"}

\* What find_dependancies raises for a dependency that is not among the
\* tags: NameError when building the message of its DependancyError reads a
\* name that is not bound.
find_dependancies_error ==
    IF FindDependanciesReads \subseteq FindDependanciesScope
    THEN "DependancyError"
    ELSE "NameError"

\* The orders in which the frozenset of named dependencies of every
\* tagger can be iterated: a function from tags to sequences.
RECURSIVE DependancyOrders(_)
DependancyOrders(S) ==
    IF S = {} THEN {<<>>}
    ELSE LET x == CHOOSE y \in S : TRUE
         IN  {(x.tag :> o) @@ rest :
                 o \in Orderings(x.dependancies),
                 rest \in DependancyOrders(S \ {x})}

\* The state of _resolve_dependancies before its first visit.
NoVisit ==
    [ordered |-> <<>>, marked |-> {}, temp_marked |-> {}, err |-> ""]

\* A visit that puts the tagger in front of the ordered list.
ordered_prepend(ordered, tag) == <<tag>> \o ordered

\* visit: ordered.append(tagger).
ordered_append(ordered, tag) == Append(ordered, tag)

\* visit(tagger) of _resolve_dependancies, from the state s of ordered,
\* marked and temp_marked; deps gives the resolved dependencies of every
\* tag in the order of iteration. VisitAll is a loop of visits; an
\* exception ends every loop it is raised in.
RECURSIVE visit(_, _, _)
RECURSIVE VisitAll(_, _, _)
visit(s, tag, deps) ==
    IF s.err # "" THEN s
    ELSE IF tag \in s.temp_marked
    THEN [s EXCEPT !.err = "CyclicDependancyError"]
    ELSE IF tag \in s.marked THEN s
    ELSE LET s2 == VisitAll([s EXCEPT !.temp_marked = @ \cup {tag}],
                            deps[tag], deps)
         IN  IF s2.err # "" THEN s2
             ELSE [s2 EXCEPT !.marked = @ \cup {tag},
                             !.temp_marked = @ \ {tag},
                             !.ordered = ordered_append(@, tag)]

VisitAll(s, tags, deps) ==
    IF tags = <<>> THEN s
    ELSE VisitAll(visit(s, Head(tags), deps), Tail(tags), deps)

\* _resolve_dependancies(tags.values()), with the values in the order the
\* dictionary iterates them: the ordered taggers, or the exception.
resolve_dependancies(values, deps) ==
    LET s == VisitAll(NoVisit, values, deps)
    IN  [err |-> s.err, taggers |-> IF s.err = "" THEN s.ordered ELSE <<>>]

\* Tagger(*taggers). The order in which the dictionary of tags and the
\* frozensets of dependencies are iterated is not specified.
tagger_init(taggers) ==
    /\ tagger = NoTagger
    /\ implementations' = taggers
    /\ IF Duplicate(taggers)
       THEN tagger' = [err |-> "TaggerError", taggers |-> <<>>]
       ELSE IF Unresolved(taggers)
       THEN tagger' = [err |-> find_dependancies_error, taggers |-> <<>>]
       ELSE \E values \in Orderings(TagsOf(taggers)),
               deps \in DependancyOrders({taggers[i] : i \in DOMAIN taggers}) :
                tagger' = resolve_dependancies(values, deps)
    /\ UNCHANGED <<evaluation, evaluated>>
    /\ UNCHANGED <<redis, handle, history, notifiers, clients, codec>>
    /\ UNCHANGED enumeration

\* An evaluate that passes an empty set of tags to every tagger.
passed_nothing(tags) == {}

\* evaluate: frozenset(tags), the set that the tagger is called with.
passed_tags(tags) == tags

\* evaluate: the next tagger is called and returns result.
evaluate_call(result) ==
    /\ tagger.err = ""
    /\ evaluated = None
    /\ Len(evaluation.calls) < Len(tagger.taggers)
    /\ LET tag == tagger.taggers[Len(evaluation.calls) + 1]
       IN  evaluation' =
             [tags |-> IF result THEN evaluation.tags \cup {tag}
                       ELSE evaluation.tags,
              calls |-> Append(evaluation.calls,
                               [tag |-> tag,
                                tags |-> passed_tags(evaluation.tags),
                                result |-> result])]
    /\ UNCHANGED <<implementations, tagger, evaluated>>
    /\ UNCHANGED <<redis, handle, history, notifiers, clients, codec>>
    /\ UNCHANGED enumeration

\* evaluate returns its tags after the last tagger.
evaluate_return ==
    /\ tagger.err = ""
    /\ evaluated = None
    /\ Len(evaluation.calls) = Len(tagger.taggers)
    /\ evaluated' = Some(evaluation.tags)
    /\ UNCHANGED <<implementations, tagger, evaluation>>
    /\ UNCHANGED <<redis, handle, history, notifiers, clients, codec>>
    /\ UNCHANGED enumeration

\* ---------------------------------------------------------- Players JSON

\* The (name, score, duration) entries of the players of a server.
ScoreEntries ==
    { <<"alice", 3, Timedelta(60)>>, <<"bob", 0, Timedelta(0)>>,
      <<"alice", 3, Timedelta(90)>> }

\* The well-formed Players objects: Players.__init__ keeps the integers
\* and the entries it is given.
PlayersInputs ==
    [current : 0 .. 2, max : {0, 24}, bots : 0 .. 1,
     scores : UNION {[1 .. n -> ScoreEntries] : n \in 0 .. MaxScores}]

\* What from_json reads of a JSON object that to_json wrote: the four
\* fields are there, the counts are integers, every entry is a list of
\* length 3 of a string and two numbers, so nothing is raised.
from_json_error(j) ==
    IF \E i \in 1 .. Len(j.scores) : Len(j.scores[i]) # 3
    THEN "PlayersError" ELSE ""

\* p.to_json()
players_to_json ==
    /\ players_json = None
    /\ players_json' = Some(to_json(players))
    /\ UNCHANGED <<players, players_back>>
    /\ UNCHANGED <<redis, handle, history, notifiers, clients, tagging>>
    /\ UNCHANGED enumeration

\* Players.from_json(p.to_json())
players_from_json ==
    /\ players_json # None
    /\ players_back = None
    /\ players_back' = IF from_json_error(players_json[1]) = ""
                  THEN Some(from_json(players_json[1]))
                  ELSE Some([err |-> from_json_error(players_json[1])])
    /\ UNCHANGED <<players, players_json>>
    /\ UNCHANGED <<redis, handle, history, notifiers, clients, tagging>>
    /\ UNCHANGED enumeration

\* ------------------------------------------------------- specifications

\* The handle is inside a set call.
InSet(h) == pc[h] \in {"set_multi", "set_notify", "set_srem", "set_notify_tag"}

\* Concurrent set calls, of statuses that differ in their tags, and reads.
NextSet ==
    \E h \in Handles :
        \/ \E s \in TagStatuses : call_set(h, s)
        \/ set_continue(h)
        \/ \E a \in Addresses : get(h, a)
        \/ Return(h)

SpecSet == InitApi /\ [][NextSet]_vars

\* set and get calls, one at a time, of statuses that differ in every
\* field.
NextRoundTrip ==
    \E h \in Handles :
        \/ \E s \in FullStatuses : Alone(h) /\ call_set(h, s)
        \/ set_continue(h)
        \/ \E a \in Addresses : Alone(h) /\ get(h, a)
        \/ Return(h)

SpecRoundTrip == InitApi /\ [][NextRoundTrip]_vars

\* The calls of the notifier API, in any order.
NextNotifier ==
    \E n \in Notifiers :
        \/ \E a \in Addresses : call_notify_server(n, a)
        \/ \E tag \in Tags, a \in Addresses : call_notify_tag(n, tag, a)
        \/ \E a \in Addresses : call_watch_server(n, a)
        \/ \E a \in Addresses : call_unwatch_server(n, a)
        \/ \E tag \in Tags : call_watch_tag(n, tag)
        \/ \E tag \in Tags : call_unwatch_tag(n, tag)
        \/ call_watch(n)

SpecNotifier == InitApi /\ [][NextNotifier]_vars

\* set calls, one at a time, and notifiers that watch servers and tags.
NextNotify ==
    \/ \E h \in Handles, s \in OneTagStatuses : Alone(h) /\ call_set(h, s)
    \/ \E h \in Handles : set_continue(h)
    \/ \E n \in Notifiers, a \in Addresses : call_watch_server(n, a)
    \/ \E n \in Notifiers, tag \in Tags : call_watch_tag(n, tag)
    \/ \E n \in Notifiers : call_watch(n)

SpecNotify == InitApi /\ [][NextNotify]_vars

\* set and search calls, one at a time.
NextSearch ==
    \E h \in Handles :
        \/ \E s \in TagStatuses : Alone(h) /\ call_set(h, s)
        \/ set_continue(h)
        \/ \E i \in SUBSET Tags, e \in SUBSET Tags :
             Alone(h) /\ search(h, i, e)
        \/ search_continue(h)
        \/ Return(h)

SpecSearch == InitApi /\ [][NextSearch]_vars

\* The interest queue, used through the cache API in any order.
NextIQ ==
    \E h \in Handles :
        \/ \E a \in Addresses : subscribe(h, a)
        \/ subscribe_push(h)
        \/ call_interesting(h)
        \/ call_update_interest_queue(h)
        \/ update_push(h)
        \/ Return(h)

SpecIQ == InitApi /\ [][NextIQ]_vars

\* The interest queue, with interest counters that something lowers.
NextDecay == NextIQ \/ \E k \in AddrKeys : interest_drops(k)

SpecDecay == InitApi /\ [][NextDecay]_vars

\* A step of a poller in interest-queue mode.
PollerStep(h) ==
    \/ poller_interesting(h)
    \/ poll_error(h)
    \/ \E s \in PollStatuses : poll_set(h, s)
    \/ poller_update(h)
    \/ set_continue(h)
    \/ update_push(h)

\* The handle is the one of a service, not of a poller.
Service(h) == ppc[h] = "off"

\* A step of a service that subscribes to addresses.
SubscriberStep(h) ==
    \/ \E a \in Addresses : Service(h) /\ subscribe(h, a)
    \/ Service(h) /\ subscribe_push(h)

\* A step of a service that reads the cache.
ReaderStep(h) ==
    \/ \E a \in Addresses : Service(h) /\ ensure(h, a)
    \/ \E a \in Addresses : Service(h) /\ get(h, a)
    \/ \E i \in SUBSET Tags, e \in SUBSET Tags : Service(h) /\ search(h, i, e)
    \/ Service(h) /\ search_continue(h)
    \/ Service(h) /\ Return(h)

\* The pollers and a service that subscribes and reads.
Next ==
    \E h \in Handles : PollerStep(h) \/ SubscriberStep(h) \/ ReaderStep(h)

Spec == Init /\ [][Next]_vars

\* The pollers and a service that subscribes.
NextPoll == \E h \in Handles : PollerStep(h) \/ SubscriberStep(h)

SpecPoll == Init /\ [][NextPoll]_vars

\* A pool of pollers that drain one interest queue.
NextWorkers == \E h \in Handles : PollerStep(h)

SpecWorkers == InitWorkers /\ [][NextWorkers]_vars

\* Every poller of the pool that can take a step eventually takes one.
FairWorkers == SpecWorkers /\ \A h \in Handles : WF_vars(PollerStep(h))

\* Every poller that can take a step eventually takes one.
FairPoll == SpecPoll /\ \A h \in Handles : WF_vars(PollerStep(h))

\* Clients that have connected to the gateway.
InitGateway ==
    /\ InitRedis /\ InitHandles /\ InitHistory
    /\ ppc = [h \in Handles |-> "off"]
    /\ InitNotifiers /\ InitClients(Clients) /\ InitTagging /\ InitCodec
    /\ InitEnumeration

\* The gateway with clients that subscribe and unsubscribe, and a poller
\* that sets the statuses of the servers through the first cache object;
\* their tags stay the same, so the SREM loop of set has nothing to
\* remove.
NextStream ==
    \/ \E s \in ServerStatuses : call_set(1, s)
    \/ set_multi(1)
    \/ set_notify_server(1)
    \/ set_notify_tag(1)
    \/ \E c \in Clients, m \in SubscribeMessages \cup UnsubscribeMessages
            \cup UnknownMessages : read_recv(c, m)
    \/ \E c \in Clients : read_disconnected(c)
    \/ \E c \in Clients :
         \/ dispatch_unknown(c)
         \/ handle_subscribe(c)
         \/ subscribe_send_status(c)
         \/ handle_unsubscribe(c)
         \/ write(c)
         \/ watch_start(c)
         \/ watch_next(c)
         \/ watch_notified(c)
         \/ process_returns(c)

SpecStream == InitGateway /\ [][NextStream]_vars

\* The tasks of every client keep being scheduled.
FairStream == SpecStream /\ \A c \in Clients : WF_vars(ClientStep(c))

\* The gateway with clients that query, and a poller that sets the status
\* of two servers, of which one has the tag the queries exclude. No client
\* watches a server channel and nothing is published on the channel of a
\* tag, so notifier.watch does not return.
NextQuery ==
    \/ \E s \in QueryStatuses : call_set(1, s)
    \/ set_multi(1)
    \/ set_notify_server(1)
    \/ set_notify_tag(1)
    \/ \E c \in Clients, m \in QueryMessages : read_recv(c, m)
    \/ \E c \in Clients : read_disconnected(c)
    \/ \E c \in Clients :
         \/ handle_query(c)
         \/ query_watch_tag(c)
         \/ query_search(c)
         \/ write(c)
         \/ watch_start(c)
         \/ process_returns(c)

SpecQuery == InitGateway /\ [][NextQuery]_vars

\* The gateway with clients that query, and a poller of a server whose game
\* mode comes and goes: a set that gives a server a new tag publishes on
\* the tag channel that is named after the address of the server.
NextMatch ==
    \/ \E s \in MatchStatuses : call_set(1, s)
    \/ set_continue(1)
    \/ \E c \in Clients, m \in MatchQueries : read_recv(c, m)
    \/ \E c \in Clients : read_disconnected(c)
    \/ \E c \in Clients :
         \/ handle_query(c)
         \/ query_watch_tag(c)
         \/ query_search(c)
         \/ write(c)
         \/ watch_start(c)
         \/ watch_next(c)
         \/ watch_notified(c)
         \/ process_returns(c)

SpecMatch == InitGateway /\ [][NextMatch]_vars

\* The gateway with clients that send messages that are not well formed
\* among queries for tf2 servers, and the poller of SpecQuery.
NextMalformed ==
    \/ \E s \in QueryStatuses : call_set(1, s)
    \/ set_multi(1)
    \/ set_notify_server(1)
    \/ set_notify_tag(1)
    \/ \E c \in Clients, m \in MalformedMessages \cup UnknownMessages
            \cup {q \in QueryMessages : q.include = {"tf2"}} :
         read_recv(c, m)
    \/ \E c \in Clients : read_disconnected(c)
    \/ \E c \in Clients :
         \/ dispatch_unknown(c)
         \/ dispatch_error(c)
         \/ handle_query(c)
         \/ query_watch_tag(c)
         \/ query_search(c)
         \/ write(c)
         \/ watch_start(c)
         \/ process_returns(c)

SpecMalformed == InitGateway /\ [][NextMalformed]_vars

\* One message for every handler of the gateway, about the server of
\* MatchStatuses.
ReaderMessages ==
    {m \in SubscribeMessages \cup UnsubscribeMessages :
        m.address \in {s.address : s \in MatchStatuses}}
    \cup {[type |-> "query", include |-> {"tf2"}, exclude |-> {"mode:cp"}]}

\* The cache API, called by a service on the handles other than the first
\* for one server; the poller of SpecMatch on the first handle; and the
\* message handlers of the gateway, for the messages of the first client,
\* which may disconnect.
NextReaders ==
    \/ \E s \in MatchStatuses : call_set(1, s)
    \/ set_continue(1)
    \/ \E h \in Handles \ {1}, a \in {s.address : s \in MatchStatuses} :
         \/ ensure(h, a)
         \/ get(h, a)
         \/ subscribe(h, a)
    \/ \E h \in Handles \ {1} :
         \/ search(h, {"tf2"}, {"mode:cp"})
         \/ search_continue(h)
         \/ all(h)
         \/ subscribe_push(h)
         \/ call_interesting(h)
         \/ call_update_interest_queue(h)
         \/ update_push(h)
         \/ Return(h)
    \/ \E m \in ReaderMessages : read_recv(1, m)
    \/ read_disconnected(1)
    \/ \E c \in Clients :
         \/ handle_subscribe(c)
         \/ subscribe_send_status(c)
         \/ handle_unsubscribe(c)
         \/ handle_query(c)
         \/ query_watch_tag(c)
         \/ query_search(c)
         \/ process_returns(c)

SpecReaders == InitGateway /\ [][NextReaders]_vars

\* Concurrent set, subscribe and get calls; the statuses given to set
\* carry an interest of their own.
NextInterest ==
    \E h \in Handles :
        \/ \E s \in InterestStatuses : call_set(h, s)
        \/ set_continue(h)
        \/ \E a \in Addresses : subscribe(h, a)
        \/ subscribe_push(h)
        \/ \E a \in Addresses : get(h, a)
        \/ Return(h)

SpecInterest == InitApi /\ [][NextInterest]_vars

\* The synchroniser and other services call ensure concurrently, beside
\* set calls of statuses whose tags stay the same.
NextEnsure ==
    \E h \in Handles :
        \/ \E a \in Addresses : ensure(h, a)
        \/ Return(h)
        \/ \E s \in ServerStatuses : call_set(h, s)
        \/ set_multi(h)
        \/ set_notify_server(h)
        \/ set_notify_tag(h)

SpecEnsure == InitApi /\ [][NextEnsure]_vars

\* A poller that enumerates the authoritative set with all_iterator while
\* a synchroniser calls ensure and another poller sets statuses.
NextEnumeration ==
    \/ \E h \in Handles :
         \/ \E a \in Addresses : ensure(h, a)
         \/ Return(h)
         \/ \E s \in ServerStatuses : call_set(h, s)
         \/ set_multi(h)
         \/ set_notify_server(h)
         \/ set_notify_tag(h)
    \/ all_sscan
    \/ fetch_put
    \/ fetch_end
    \/ all_iterator_next

SpecEnumeration == InitApi /\ [][NextEnumeration]_vars

\* The task that reads the cursor and the loop of the iterator keep
\* running: the event loop is given time in every turn.
FairEnumeration ==
    /\ SpecEnumeration
    /\ WF_vars(fetch_put \/ fetch_end)
    /\ WF_vars(all_iterator_next)

\* Concurrent set calls for one address, of statuses that differ in every
\* field, and concurrent gets.
NextAtomic ==
    \E h \in Handles :
        \/ \E s \in AtomicStatuses : call_set(h, s)
        \/ set_continue(h)
        \/ \E s \in AtomicStatuses : get(h, s.address)
        \/ Return(h)

SpecAtomic == InitApi /\ [][NextAtomic]_vars

\* No set call for the address key k is in progress.
NoSetOf(k) == \A g \in Handles : InSet(g) => loc[g].key # k

\* Pollers that never hold the same address at a time: set calls for one
\* address follow each other, those for different addresses run side by
\* side, and a service searches by one tag.
NextIndexed ==
    \E h \in Handles :
        \/ \E s \in TagStatuses : NoSetOf(str(s.address)) /\ call_set(h, s)
        \/ set_continue(h)
        \/ \E tag \in Tags : search(h, {tag}, {})
        \/ search_continue(h)
        \/ Return(h)

SpecIndexed == InitApi /\ [][NextIndexed]_vars

\* Services that search side by side, each with any include tags and with
\* or without the game mode excluded, some of them failing on a Redis
\* error; the cache is written between the searches, by one set call at a
\* time.
NextTrace ==
    \E h \in Handles :
        \/ \E s \in TagStatuses : Alone(h) /\ call_set(h, s)
        \/ set_continue(h)
        \/ /\ \A g \in Handles : ~InSet(g)
           /\ \E i \in SUBSET Tags, e \in SUBSET {"mode:cp"} :
                 search(h, i, e)
        \/ search_continue(h)
        \/ search_raises(h)
        \/ search_finally(h)
        \/ Return(h)

SpecTrace == InitApi /\ [][NextTrace]_vars

\* A Players object is converted to JSON and back.
InitPlayers ==
    /\ InitRedis /\ InitHandles /\ InitHistory
    /\ ppc = [h \in Handles |-> "off"]
    /\ InitNotifiers /\ InitClients({}) /\ InitTagging /\ InitEnumeration
    /\ players \in PlayersInputs
    /\ players_json = None
    /\ players_back = None

NextPlayers == players_to_json \/ players_from_json

SpecPlayers == InitPlayers /\ [][NextPlayers]_vars

\* A Tagger is constructed, once, and, when that succeeds, evaluates a
\* server.
NextTagger ==
    \/ /\ tagger = NoTagger
       /\ \E n \in 0 .. MaxRules :
            \E taggers \in [1 .. n -> Implementations] : tagger_init(taggers)
    \/ \E result \in BOOLEAN : evaluate_call(result)
    \/ evaluate_return

SpecTagger == InitApi /\ [][NextTagger]_vars

\* ---------------------------------------------------------------- claims

Last(s) == s[Len(s)]

\* No set call is in progress: every started set has finished its
\* transaction, its dropped-tag cleanup and its notifications.
NoSetInProgress == \A h \in Handles : ~InSet(h)

\* C1: whenever no set call is in progress, an address is a member of the
\* reverse index of a tag iff the tag is a member of the address's tag
\* set, whatever the interleaving of the set calls was.
C1_FinalConsistency ==
    NoSetInProgress =>
        \A t \in Tags, k \in AddrKeys : k \in tagidx[t] <=> t \in stags[k]

\* C2: a get that follows a completed set of the same address returns the
\* tags, name, map, application_id and players of the status that was set.
C2_SetGetRoundTrip ==
    \A h \in Handles :
        (pc[h] = "ret" /\ ret[h].op = "get" /\ sethist[ret[h].key] # <<>>) =>
            LET s == Last(sethist[ret[h].key])
                got == ret[h].val
            IN  /\ got.tags = s.tags
                /\ got.name = s.name
                /\ got.map = s.map
                /\ got.application_id = s.application_id
                /\ got.players = s.players

\* C2, for the statuses whose players have no scores: the round trip holds
\* for every field.
C2_RoundTripWithoutScores ==
    \A h \in Handles :
        (/\ pc[h] = "ret" /\ ret[h].op = "get"
         /\ sethist[ret[h].key] # <<>>
         /\ Last(sethist[ret[h].key]).players.scores = <<>>) =>
            LET s == Last(sethist[ret[h].key])
                got == ret[h].val
            IN  /\ got.tags = s.tags
                /\ got.name = s.name
                /\ got.map = s.map
                /\ got.application_id = s.application_id
                /\ got.players = s.players

\* A search by the one tag t has returned on handle h.
SearchedTag(h, t) ==
    /\ pc[h] = "ret" /\ ret[h].op = "search"
    /\ ret[h].include = {t} /\ ret[h].exclude = {}

\* C3: after two completed sets of an address, with tag sets T1 and then
\* T2, a search by one tag t returns the address iff t is in T2.
C3_OverwriteUpdatesIndex ==
    \A h \in Handles, t \in Tags, k \in AddrKeys :
        (SearchedTag(h, t) /\ Len(sethist[k]) = 2) =>
            (parse(k)[1] \in ret[h].val <=> t \in sethist[k][2].tags)

\* C3 witness: the second set dropped a tag of the first and kept or added
\* another, and searches by these tags have returned.
C3_Witness ==
    \E h \in Handles, t \in Tags, k \in AddrKeys :
        /\ SearchedTag(h, t) /\ Len(sethist[k]) = 2
        /\ t \in sethist[k][1].tags \ sethist[k][2].tags
        /\ sethist[k][2].tags # {}
        /\ parse(k)[1] \notin ret[h].val

\* C4: search returns exactly the addresses that are in the index of every
\* include tag and of no exclude tag, and nothing when include is empty.
C4_SearchSetAlgebra ==
    \A h \in Handles :
        (pc[h] = "ret" /\ ret[h].op = "search") =>
            ret[h].val =
                IF ret[h].include = {} THEN {}
                ELSE {a \in Addresses :
                        /\ \A t \in ret[h].include : str(a) \in tagidx[t]
                        /\ \A t \in ret[h].exclude : str(a) \notin tagidx[t]}

\* C4 witness: a search with an include and an exclude tag that returns
\* one address and leaves out another that carries the exclude tag.
C4_Witness ==
    \E h \in Handles, a \in Addresses, b \in Addresses :
        /\ pc[h] = "ret" /\ ret[h].op = "search"
        /\ ret[h].include = {"tf2"} /\ ret[h].exclude = {"mode:cp"}
        /\ a \in ret[h].val
        /\ b \notin ret[h].val /\ str(b) \in tagidx["tf2"]

\* C4 witness of the boundary: a search with no include tag and an exclude
\* tag has returned while the index is not empty.
C4_WitnessEmptyInclude ==
    \E h \in Handles :
        /\ pc[h] = "ret" /\ ret[h].op = "search"
        /\ ret[h].include = {} /\ ret[h].exclude # {}
        /\ tagidx["tf2"] # {}

\* The positions of the interest queue that hold an item of address key k.
PositionsOf(k) == {i \in 1 .. Len(iq) : iq[i][2] = k}

\* The handles whose active item is of address key k.
HoldersOf(k) == {h \in Handles : active[h] # None /\ str(active[h][1][2]) = k}

\* The handles between the INCR and the push of a subscribe for k.
SubscribersOf(k) ==
    {h \in Handles : pc[h] = "subscribe_push" /\ str(loc[h].address) = k}

\* The number of items of level l and address key k that are in the queue
\* or are the active item of a handle.
Held(l, k) ==
    Cardinality({i \in PositionsOf(k) : iq[i][1] = l})
    + Cardinality({h \in HoldersOf(k) : active[h][1][1] = l})

\* The occurrences of k: its items in the queue, its active items and the
\* items its subscribers are about to push.
Occurrences(k) ==
    Cardinality(PositionsOf(k)) + Cardinality(HoldersOf(k))
    + Cardinality(SubscribersOf(k))

NoSubscribeInProgress == \A h \in Handles : pc[h] # "subscribe_push"

NoCycleInProgress ==
    \A h \in Handles : active[h] = None /\ pc[h] # "update_push"

\* C5: when every started subscribe has completed, after n subscribes of
\* an address in any interleaving, its interest counter is n and its n
\* items carry the levels 1 .. n, each level once.
C5_SubscribeLevelsDistinct ==
    NoSubscribeInProgress =>
        \A k \in AddrKeys :
            /\ interest[k] = nsub[k]
            /\ Cardinality(PositionsOf(k)) + Cardinality(HoldersOf(k)) = nsub[k]
            /\ \A l \in 1 .. nsub[k] : Held(l, k) = 1

\* C5 witness: two handles were between INCR and push of the same address
\* at once, and three subscribes of it have completed.
C5_Witness ==
    \E k \in AddrKeys :
        /\ NoSubscribeInProgress /\ NoCycleInProgress
        /\ nsub[k] = 3
        /\ iq = <<<<2, k>>, <<1, k>>, <<3, k>>>>

\* The step is update_interest_queue's read of the status on handle h,
\* with its decision to push the active item again or to drop it.
UpdateDecides(h) ==
    /\ pc[h] = "idle" /\ active[h] # None
    /\ pc'[h] = "update_push" \/ active'[h] = None

\* The step is the push of update_interest_queue on handle h.
UpdatePushes(h) == pc[h] = "update_push" /\ pc'[h] = "idle"

\* C6: update_interest_queue on a handle with the active item (level, a)
\* goes on to push iff a's interest is >= level when it is read; the push
\* appends the same pair at the tail; a drop appends nothing; either way
\* the active marker ends up cleared.
C6_UpdateStaleness ==
    [][\A h \in Handles :
         /\ UpdateDecides(h) =>
              /\ pc'[h] = "update_push" <=>
                    interest[str(active[h][1][2])] >= active[h][1][1]
              /\ iq' = iq
              /\ pc'[h] = "update_push" => active'[h] = active[h]
              /\ pc'[h] # "update_push" =>
                    active'[h] = None /\ pc'[h] = "idle"
         /\ UpdatePushes(h) =>
              /\ active[h] # None
              /\ iq' = Append(iq, <<active[h][1][1], str(active[h][1][2])>>)
              /\ active'[h] = None
         /\ (pc[h] = "update_push" /\ ~UpdatePushes(h)) =>
              active'[h] = active[h]]_vars

\* C6 witness: one update is about to push its item again, with the
\* interest equal to the item's level, after another has dropped an item.
C6_Witness ==
    \E h \in Handles, k \in AddrKeys :
        /\ pc[h] = "update_push"
        /\ interest[str(active[h][1][2])] = active[h][1][1]
        /\ Occurrences(k) < nsub[k]

\* The step is a call of interesting() on handle h.
InterestingCalled(h) ==
    pc[h] = "idle" /\ pc'[h] = "ret" /\ ret'[h].op = "interesting"

\* C7: interesting() on a handle without an active item removes the head
\* of a non-empty queue and records it as the active item, and raises
\* EmptyQueueError on an empty queue with the marker left unset; on a
\* handle with an active item it raises CacheError and changes neither the
\* queue nor the active item.
C7_ActiveItemProtocol ==
    [][\A h \in Handles :
         InterestingCalled(h) =>
            IF active[h] # None
            THEN /\ ret'[h].err = "CacheError"
                 /\ iq' = iq /\ active' = active
            ELSE IF iq = <<>>
            THEN /\ ret'[h].err = "EmptyQueueError"
                 /\ iq' = iq /\ active' = active
            ELSE /\ ret'[h].err = ""
                 /\ iq' = Tail(iq)
                 /\ active'[h] # None
                 /\ active'[h][1][1] = Head(iq)[1]
                 /\ str(active'[h][1][2]) = Head(iq)[2]
                 /\ ret'[h].val = active'[h][1][2]
                 /\ \A g \in Handles \ {h} : active'[g] = active[g]]_vars

\* C7 witness: a handle that holds an active item got CacheError while
\* an item is left in the queue, and another handle got EmptyQueueError
\* or an address.
C7_Witness ==
    \E h \in Handles, g \in Handles :
        /\ pc[h] = "ret" /\ ret[h].op = "interesting"
        /\ ret[h].err = "CacheError" /\ active[h] # None /\ iq # <<>>
        /\ pc[g] = "ret" /\ ret[g].op = "interesting"
        /\ ret[g].err = "" /\ active[g] # None

\* C7 witness of the empty queue.
C7_WitnessEmpty ==
    \E h \in Handles :
        /\ pc[h] = "ret" /\ ret[h].op = "interesting"
        /\ ret[h].err = "EmptyQueueError" /\ active[h] = None
        /\ \E k \in AddrKeys : nsub[k] > 0

\* C8: without a decrement, every update_interest_queue pushes its item
\* again, and whenever no subscribe and no cycle is in progress the queue
\* holds exactly k items of an address that was subscribed k times, whose
\* interest is still k.
C8_SteadyInterest ==
    /\ [](\A k \in AddrKeys :
            /\ interest[k] = nsub[k]
            /\ (NoSubscribeInProgress /\ NoCycleInProgress) =>
                  Cardinality(PositionsOf(k)) = nsub[k])
    /\ [][\A h \in Handles :
            UpdateDecides(h) => pc'[h] = "update_push"]_vars

\* C8 witness: after three subscribes of one address and completed
\* cycles, the three items are in the queue in another order.
C8_Witness ==
    \E k \in AddrKeys :
        /\ NoSubscribeInProgress /\ NoCycleInProgress
        /\ nsub[k] = 3
        /\ iq = <<<<3, k>>, <<1, k>>, <<2, k>>>>

\* C9: while the interest of an address is 0, the update_interest_queue
\* that follows the pop of one of its items drops the item, and no step
\* adds an occurrence of the address, so that each occurrence is gone
\* after it has been popped once more.
C9_Decay ==
    [][\A k \in AddrKeys :
         (interest[k] = 0 /\ interest'[k] = 0) =>
            /\ Occurrences(k)' <= Occurrences(k)
            /\ \A h \in HoldersOf(k) :
                 UpdateDecides(h) =>
                    /\ active'[h] = None /\ pc'[h] = "idle" /\ iq' = iq
                    /\ Occurrences(k)' = Occurrences(k) - 1]_vars

\* C9 witness: an address that was subscribed twice is at interest 0 and
\* has no occurrence left.
C9_Witness ==
    \E k \in AddrKeys :
        /\ nsub[k] >= 2 /\ interest[k] = 0
        /\ Occurrences(k) = 0
        /\ NoCycleInProgress

\* The position of the first item of address key k in the queue, 0 when
\* there is none.
FirstPosition(k) ==
    IF PositionsOf(k) = {} THEN 0
    ELSE CHOOSE i \in PositionsOf(k) : \A j \in PositionsOf(k) : i <= j

\* C10: the queue is first in, first out: a step that makes it longer
\* appends one item at the tail, a step that makes it shorter removes the
\* head, which becomes the active item of a handle, and no step changes
\* it otherwise; so the first item of an address moves one place towards
\* the head with each pop and is popped after as many pops as its place.
C10_FifoStarvationBound ==
    [][/\ \/ iq' = iq
          \/ \E l \in 1 .. MaxSubs, k \in AddrKeys : iq' = Append(iq, <<l, k>>)
          \/ /\ iq # <<>> /\ iq' = Tail(iq)
             /\ \E h \in Handles :
                  /\ active[h] = None /\ active'[h] # None
                  /\ str(active'[h][1][2]) = Head(iq)[2]
       /\ \A k \in AddrKeys :
            FirstPosition(k) > 0 =>
               \/ FirstPosition(k)' = FirstPosition(k)
               \/ /\ iq' = Tail(iq)
                  /\ FirstPosition(k) = 1
                  /\ HoldersOf(k)' # HoldersOf(k)
               \/ /\ iq' = Tail(iq)
                  /\ FirstPosition(k)' = FirstPosition(k) - 1]_vars

\* C10 witness: a poller holds the item of one address, taken from the
\* head, while the item of the other address has moved up to the head
\* and an item of the first is behind it again.
C10_Witness ==
    \E h \in Handles, k \in AddrKeys, j \in AddrKeys :
        /\ k # j
        /\ ppc[h] = "poll" /\ h \in HoldersOf(k)
        /\ Len(iq) >= 2
        /\ FirstPosition(j) = 1
        /\ FirstPosition(k) = 2

\* C10, under fair pollers: an address that has an item in the queue
\* becomes the active item of a poller.
C10_EventuallyPolled ==
    \A k \in AddrKeys : (PositionsOf(k) # {}) ~> (HoldersOf(k) # {})

\* The handles of pollers.
Pollers == {h \in Handles : ppc[h] # "off"}

\* C11: no two pollers hold the same address as their active item at the
\* same time, whatever the queue holds.
C11_PollerMutualExclusion ==
    \A h \in Pollers, g \in Pollers :
        (h # g /\ active[h] # None /\ active[g] # None) =>
            active[h][1][2] # active[g][1][2]

\* The step is the one of _watch on handle h in which poll raises
\* PollError: the loop body ends without a call of cache.set.
PollErrorAbsorbed(h) ==
    ppc[h] = "poll" /\ ppc'[h] = "update" /\ pc'[h] = "idle"

\* C12: a poll that raises PollError changes nothing of the cache: the
\* authoritative set, the status hashes, the tag sets, the reverse index
\* and the published notifications are as before; and every poller always
\* has a next step, so that the loop goes on to update_interest_queue and
\* the next address.
C12_PollErrorAbsorbed ==
    /\ [][\A h \in Handles :
            PollErrorAbsorbed(h) =>
               /\ servers' = servers /\ hash' = hash /\ stags' = stags
               /\ tagidx' = tagidx /\ published' = published
               /\ iq' = iq /\ interest' = interest
               /\ active'[h] = active[h]]_vars
    /\ [](\A h \in Pollers : ENABLED PollerStep(h))

\* C12 witness: a poller has polled an address that no set ever wrote,
\* got PollError, and is about to call update_interest_queue for it.
C12_Witness ==
    \E h \in Pollers :
        /\ ppc[h] = "update" /\ pc[h] = "idle"
        /\ active[h] # None
        /\ str(active[h][1][2]) \notin servers
        /\ hash[str(active[h][1][2])] = NoHash

\* The step is the notify_server of a set call on handle h.
SetNotifiesServer(h) == pc[h] = "set_notify" /\ pc'[h] # "set_notify"

\* The step is a notify_tag of a set call on handle h.
SetNotifiesTag(h) == pc[h] = "set_notify_tag" /\ loc'[h] # loc[h]

\* The tag whose notify_tag the step is.
NotifiedTag(h) ==
    CHOOSE t \in loc[h].new : pc'[h] = "idle" \/ t \notin loc'[h].new

\* Notifier n is handed one more message, which watch() returns as the
\* notification (kind, address).
Receives(n, kind, address) ==
    /\ Len(inbox'[n]) = Len(inbox[n]) + 1
    /\ watch_result(inbox'[n][Len(inbox'[n])]) = <<kind, address>>

\* C13, for the server channel: the notify_server of a set of address a
\* reaches every notifier that watches server a as (SERVER, a).
C13_ServerNotificationsReach ==
    [][\A h \in Handles :
         SetNotifiesServer(h) =>
            \A n \in Notifiers :
                ServerChannel(loc[h].status.address) \in watched[n] =>
                    Receives(n, "servers", loc[h].status.address)]_vars

\* C13: every set of address a publishes a notification that reaches the
\* notifiers watching server a as (SERVER, a), and for each tag that is
\* new to a one that reaches the notifiers that called watch_tag for this
\* tag as (TAG, a).
C13_NotificationsReachWatchers ==
    [][\A h \in Handles :
         /\ SetNotifiesServer(h) =>
              \A n \in Notifiers :
                  ServerChannel(loc[h].status.address) \in watched[n] =>
                      Receives(n, "servers", loc[h].status.address)
         /\ SetNotifiesTag(h) =>
              \A n \in Notifiers :
                  WatchTagChannel(NotifiedTag(h)) \in watched[n] =>
                      Receives(n, "tags", loc[h].status.address)]_vars

\* The tags of the last completed set of address key k.
PreviousTags(k) == IF sethist[k] = <<>> THEN {} ELSE Last(sethist[k]).tags

\* C14: a set sends its tag notifications for the tags of the new status
\* that the previous status of the address did not have, one for each,
\* and for no other tag: none for a tag that was there before, none for
\* a tag that is removed.
C14_TagNotificationsForNewTags ==
    [][/\ (\A h \in Handles : ~SetNotifiesTag(h)) =>
            \A m \in published' \ published : m[1] # "tags"
       /\ \A h \in Handles :
         /\ SetNotifiesServer(h) =>
              LET fresh == loc[h].status.tags \ PreviousTags(loc[h].key)
              IN  IF pc'[h] = "set_notify_tag" \/ pc'[h] = "set_srem"
                  THEN loc'[h].new = fresh
                  ELSE fresh = {}
         /\ (pc[h] = "set_srem" /\ pc'[h] = "set_notify_tag") =>
              loc'[h].new = loc[h].new
         /\ (pc[h] = "set_srem" /\ pc'[h] = "idle") => loc[h].new = {}
         /\ SetNotifiesTag(h) =>
              /\ NotifiedTag(h) \in
                    loc[h].status.tags \ PreviousTags(loc[h].key)
              /\ pc'[h] = "set_notify_tag" =>
                    loc'[h].new = loc[h].new \ {NotifiedTag(h)}
              /\ pc'[h] = "idle" => loc[h].new = {NotifiedTag(h)}]_vars

\* C14 witness: a set that overwrites tf2, mode:cp by tf2 alone is about
\* to remove the address from the index of mode:cp and has no tag to
\* notify.
C14_Witness ==
    \E h \in Handles :
        /\ pc[h] = "set_srem"
        /\ PreviousTags(loc[h].key) = {"tf2", "mode:cp"}
        /\ loc[h].status.tags = {"tf2"}
        /\ loc[h].rem = {"mode:cp"} /\ loc[h].new = {}

\* The last call on notifier n was a notify_server or a notify_tag.
Notified(n) == nret[n].op \in {"notify_server", "notify_tag"}

\* C15: once a watch call (watch_server, unwatch_server, watch_tag,
\* unwatch_tag, watch) was made on a notifier, every notify_server and
\* notify_tag on it fails with NotifierError and publishes nothing; a
\* notifier never leaves watching mode; a notifier on which no watch call
\* was made publishes, and whatever is published comes from such a one.
C15_NotifierModeExclusion ==
    /\ [](\A n \in Notifiers :
            Notified(n) =>
               IF watchcalls[n] # {}
               THEN nret[n].err = "NotifierError"
               ELSE /\ nret[n].err = ""
                    /\ <<nret[n].val[1], nret[n].val[2], nret[n].val[2]>>
                          \in published)
    /\ [][/\ \A n \in Notifiers : subscriber[n] => subscriber'[n]
          /\ published' # published =>
                \E n \in Notifiers :
                    watchcalls[n] = {} /\ Notified(n)' /\ nret'[n].err = ""]_vars

\* C15, for the watch calls that get as far as asking for the subscriber
\* (all but unwatch_tag): after one of them every notify fails with
\* NotifierError, and whatever is published comes from a notifier that
\* has no subscriber.
C15_ExclusionOnceWatching ==
    /\ [](\A n \in Notifiers :
            /\ subscriber[n] <=> watchcalls[n] \ {"unwatch_tag"} # {}
            /\ Notified(n) =>
                 IF subscriber[n] THEN nret[n].err = "NotifierError"
                 ELSE nret[n].err = "")
    /\ [][/\ \A n \in Notifiers : subscriber[n] => subscriber'[n]
          /\ published' # published =>
                \E n \in Notifiers :
                    ~subscriber[n] /\ Notified(n)' /\ nret'[n].err = ""]_vars

\* The reader of client c has left the handler of a subscribe message.
SubscribeHandled(c) ==
    /\ rpc[c].msg \in SubscribeMessages
    /\ rpc[c].at \notin {"dispatch", "send_status"}

\* The items of the interest queue that are for the address.
ItemsFor(address) == {i \in DOMAIN iq : iq[i][2] = address}

\* C16: when the gateway has handled a subscribe message for address a,
\* the interest counter of a has been incremented and an item for a has
\* been pushed on the interest queue, so that a is at the head of a queue
\* that was empty before. (No other process subscribes here, and no
\* poller takes items.)
C16_SubscribeBoostsInterest ==
    \A c \in Clients :
        SubscribeHandled(c) =>
            /\ interest[str(rpc[c].msg.address)] >= 1
            /\ ItemsFor(rpc[c].msg.address) # {}

\* C16, as the gateway behaves: whatever the clients send, no interest
\* counter is incremented and the interest queue stays empty.
C16_GatewayNeverSubscribes ==
    /\ \A k \in AddrKeys : interest[k] = 0
    /\ iq = <<>>

\* The step is the _send_status of client c's subscribe handler.
SubscribeSendsStatus(c) == rpc[c].at = "send_status" /\ rpc'[c] # rpc[c]

\* C17: the handler of a subscribe message for address a puts one status
\* message for a, built from cache.get(a), on the send queue and returns
\* to _read, which waits for the next message; the connection stays open.
C17_ImmediateStatus ==
    [][\A c \in Clients :
         SubscribeSendsStatus(c) =>
            /\ send_queue'[c] =
                  Append(send_queue[c],
                         status_entity(GetStatus(rpc[c].msg.address)))
            /\ rpc'[c].at = "recv"
            /\ conn'[c] = "open"]_vars

\* The status messages among the messages of a sequence.
StatusMessages(messages) ==
    {i \in DOMAIN messages : messages[i].type = "status"}

\* C17 and C18, as the gateway behaves: no status message is ever put on
\* a send queue or sent, and the _send_status of a subscribe handler ends
\* the _read task.
NoStatusMessageEver ==
    /\ [](\A c \in Clients :
            /\ StatusMessages(send_queue[c]) = {}
            /\ StatusMessages(socket[c]) = {})
    /\ [][\A c \in Clients :
            SubscribeSendsStatus(c) => rpc'[c].at = "failed"]_vars

\* A server notification for the address waits in the inbox of client
\* c's notifier, which watches the server and is connected.
Notification(c, address) ==
    /\ Open(c)
    /\ ServerChannel(address) \in watched[c]
    /\ \E i \in DOMAIN inbox[c] :
         inbox[c][i] = <<ServerChannel(address), str(address)>>

\* A status message for the address has been sent on client c's socket.
StatusSent(c, address) ==
    \E i \in StatusMessages(socket[c]) :
        /\ socket[c][i].ip = address.ip
        /\ socket[c][i].port = address.port

\* C18: when the notification of a set for address a has reached a
\* client that is connected and subscribed to a, a status message for a
\* is eventually sent on the client's socket.
C18_StatusStreaming ==
    \A c \in Clients, a \in Addresses :
        Notification(c, a) ~> StatusSent(c, a)

\* C18, as the gateway behaves: a client that a server notification has
\* reached is eventually disconnected.
C18_NotificationEndsConnection ==
    \A c \in Clients, a \in Addresses : Notification(c, a) ~> ~Open(c)

\* The step completes the handling of an unsubscribe message of client c.
UnsubscribeHandled(c) ==
    /\ rpc[c].at = "dispatch"
    /\ rpc[c].msg \in UnsubscribeMessages
    /\ rpc'[c].at = "recv"

C19_DeliveredToWatchersOnly ==
    [][\A n \in Notifiers :
         Len(inbox'[n]) > Len(inbox[n]) =>
            inbox'[n][Len(inbox'[n])][1] \in watched[n]]_vars

\* The notifier has watched a server and unwatched it, another notifier
\* has published since, and nothing was handed to the first.
C19_UnwatchedNotifier ==
    \E n \in Notifiers, m \in Notifiers :
        /\ watchcalls[n] = {"watch_server", "unwatch_server"}
        /\ watched[n] = {} /\ inbox[n] = <<>>
        /\ nret[m].op = "notify_server" /\ nret[m].err = ""

\* The step ends the handling of a query message of client c.
QueryHandled(c) ==
    /\ rpc[c].msg \in QueryMessages
    /\ rpc[c].at \in {"dispatch", "query_watch"}
    /\ rpc'[c].at \notin {"dispatch", "query_watch"}

\* The tags whose channels the notifier watches.
WatchedTags(channels) == {t \in Tags : WatchTagChannel(t) \in channels}

\* C20: the handling of a query message ends with the notifier watching
\* exactly the channels of the included tags, with the include and
\* exclude sets of the query recorded, with _read waiting for the next
\* message and the connection open, whatever the previous include set.
C20_QueryReplacesWatchedTags ==
    [][\A c \in Clients :
         QueryHandled(c) =>
            /\ rpc'[c].at = "recv"
            /\ WatchedTags(watched'[c]) = rpc[c].msg.include
            /\ client_include'[c] = rpc[c].msg.include
            /\ client_exclude'[c] = rpc[c].msg.exclude
            /\ conn'[c] = "open"]_vars

\* C20, for the queries that take no tag away: the handling of a query
\* fails only when a previously included tag is not included any more,
\* and then nothing is recorded or watched; otherwise it ends as C20
\* says.
C20_QueryThatKeepsItsTags ==
    [][\A c \in Clients :
         QueryHandled(c) =>
            IF rpc'[c].at = "failed"
            THEN /\ client_include[c] \ rpc[c].msg.include # {}
                 /\ client_include'[c] = client_include[c]
                 /\ client_exclude'[c] = client_exclude[c]
                 /\ watched'[c] = watched[c]
            ELSE /\ rpc'[c].at = "recv"
                 /\ WatchedTags(watched'[c]) = rpc[c].msg.include
                 /\ client_include'[c] = rpc[c].msg.include
                 /\ client_exclude'[c] = rpc[c].msg.exclude
                 /\ conn'[c] = "open"]_vars

\* The reader of client c completes the search of a query.
QuerySearched(c) ==
    /\ rpc[c].at = "query_watch" /\ rpc[c].left = {}
    /\ rpc'[c].at = "recv"

\* The addresses whose key is in the index of every included tag and in
\* the index of no excluded tag; none when nothing is included.
Matching(include, exclude) ==
    {a \in Addresses :
        /\ include # {}
        /\ \A t \in include : str(a) \in TagSet(t)
        /\ \A t \in exclude : str(a) \notin TagSet(t)}

\* What a step appends to the send queue of client c.
Sent(c) == SubSeq(send_queue'[c], Len(send_queue[c]) + 1, Len(send_queue'[c]))

TagNotified(c) ==
    /\ dpc[c].at = "notified" /\ dpc[c].note[1][1] = "tags"
    /\ dpc'[c] # dpc[c]

\* The address of the notification that client c is handling.
NotifiedAddress(c) == dpc[c].note[1][2]

\* C22: when the notification task handles (TAG, a), it sends one match
\* for a if the tags of a's status hold every included tag and no excluded
\* one, and sends nothing otherwise.
C22_MatchOnTagNotification ==
    [][\A c \in Clients :
          TagNotified(c) =>
              LET tags == GetStatus(NotifiedAddress(c)).tags
              IN  IF /\ client_include[c] \subseteq tags
                     /\ tags \cap client_exclude[c] = {}
                  THEN send_queue'[c] =
                         Append(send_queue[c],
                                match_entity(NotifiedAddress(c)))
                  ELSE send_queue'[c] = send_queue[c]]_vars

\* What the notification task does: the match is sent if and only if every
\* tag of the status is an included one and none is excluded.
C22_MatchWhenTagsAmongIncluded ==
    [][\A c \in Clients :
          TagNotified(c) =>
              LET tags == GetStatus(NotifiedAddress(c)).tags
              IN  IF /\ tags \subseteq client_include[c]
                     /\ tags \cap client_exclude[c] = {}
                  THEN send_queue'[c] =
                         Append(send_queue[c],
                                match_entity(NotifiedAddress(c)))
                  ELSE send_queue'[c] = send_queue[c]]_vars

\* The reader of client c handles a message that is not well formed.
MalformedHandled(c) ==
    /\ rpc[c].at = "dispatch"
    /\ rpc[c].msg \in MalformedMessages \cup UnknownMessages
    /\ rpc'[c] # rpc[c]

\* C23: a message that is no JSON, lacks type or entity, has a type without
\* a handler or an address entity that fails validation raises a
\* MessageError; handling it puts exactly one error message on the send
\* queue of the client, touches neither the cache nor the subscriptions of
\* any notifier, and leaves the connection open with the reader back at
\* receiving, every other part of the client as it was.
C23_MalformedMessageHandling ==
    /\ [](\A c \in Clients :
             rpc[c].at = "dispatch" /\ rpc[c].msg \in MalformedMessages
                 => message_error(rpc[c].msg) # "")
    /\ [][\A c \in Clients :
             MalformedHandled(c) =>
                 /\ send_queue' =
                      [send_queue EXCEPT ![c] = Append(@, error_entity)]
                 /\ rpc' = [rpc EXCEPT ![c].at = "recv"]
                 /\ conn'[c] = "open"
                 /\ UNCHANGED <<redis, handle, history, notifiers>>
                 /\ UNCHANGED <<conn, dpc, client_include, client_exclude,
                                socket>>]_vars

\* After an error message for its first message, a client has had its
\* query handled: the tag is watched and the match is queued.
C23_Witness ==
    \E c \in Clients :
        /\ conn[c] = "open" /\ rpc[c].at = "recv"
        /\ rpc[c].msg.type = "query"
        /\ client_include[c] = {"tf2"}
        /\ WatchTagChannel("tf2") \in watched[c]
        /\ Len(send_queue[c]) = 2
        /\ send_queue[c][1] = error_entity
        /\ send_queue[c][2].type = "match"

\* The step ends the connection of client c.
Closes(c) == conn[c] = "open" /\ conn'[c] = "closed"

\* The step leaves client d and its notifier as they were.
Untouched(d) ==
    /\ conn'[d] = conn[d] /\ rpc'[d] = rpc[d] /\ dpc'[d] = dpc[d]
    /\ client_include'[d] = client_include[d]
    /\ client_exclude'[d] = client_exclude[d]
    /\ send_queue'[d] = send_queue[d] /\ socket'[d] = socket[d]
    /\ subscriber'[d] = subscriber[d] /\ watched'[d] = watched[d]
    /\ inbox'[d] = inbox[d]

DependanciesOf(taggers, tag) ==
    UNION {taggers[i].dependancies :
             i \in {j \in DOMAIN taggers : taggers[j].tag = tag}}

\* Tag b is reached from tag a along at least one and at most n declared
\* dependencies.
RECURSIVE Reaches(_, _, _, _)
Reaches(taggers, a, b, n) ==
    /\ n > 0
    /\ \E d \in DependanciesOf(taggers, a) :
          d = b \/ Reaches(taggers, d, b, n - 1)

\* Some tag depends on itself, directly or through other tags.
Cyclic(taggers) ==
    \E tag \in TagsOf(taggers) : Reaches(taggers, tag, tag, Len(taggers))

\* Tagger() has returned or raised for implementations that have distinct
\* tags and dependencies that all exist.
Resolved ==
    /\ tagger # NoTagger
    /\ ~Duplicate(implementations) /\ ~Unresolved(implementations)

\* C25: for implementations with distinct tags and existing dependencies,
\* Tagger() raises CyclicDependancyError and yields no tagger when the
\* dependencies have a cycle; otherwise it yields an order that holds
\* every implementation exactly once, each after all of its dependencies.
C25_CycleRejection ==
    Resolved =>
        IF Cyclic(implementations)
        THEN tagger = [err |-> "CyclicDependancyError", taggers |-> <<>>]
        ELSE /\ tagger.err = ""
             /\ Len(tagger.taggers) = Len(implementations)
             /\ {tagger.taggers[i] : i \in DOMAIN tagger.taggers}
                  = TagsOf(implementations)
             /\ \A i \in DOMAIN tagger.taggers :
                   DependanciesOf(implementations, tagger.taggers[i])
                       \subseteq {tagger.taggers[j] : j \in 1 .. i - 1}

\* The three rules tf2, mode:cp (after tf2) and mode:koth (after both)
\* have been given in the opposite order and are ordered.
C25_Witness ==
    /\ implementations =
         << TaggerImplementation("mode:koth", {"tf2", "mode:cp"}),
            TaggerImplementation("mode:cp", {"tf2"}),
            TaggerImplementation("tf2", {}) >>
    /\ tagger = [err |-> "", taggers |-> <<"tf2", "mode:cp", "mode:koth">>]

\* A cycle of two rules has been rejected.
C25_WitnessCycle ==
    /\ implementations =
         << TaggerImplementation("tf2", {"mode:cp"}),
            TaggerImplementation("mode:cp", {"tf2"}) >>
    /\ tagger.err = "CyclicDependancyError"

\* The tags of the calls before the i-th whose tagger returned true.
AppliedBefore(i) ==
    {evaluation.calls[j].tag :
        j \in {k \in 1 .. i - 1 : evaluation.calls[k].result}}

\* C26: evaluate calls every tagger at most once, after the taggers of all
\* its dependencies, and with exactly the tags whose taggers have returned
\* true so far, so that a dependency is in the set it is called with if
\* and only if the tagger of the dependency returned true. When evaluate
\* returns, every tagger has been called exactly once, and the returned
\* set holds the tags whose taggers returned true.
C26_PrerequisitesVisible ==
    /\ \A i \in DOMAIN evaluation.calls :
          /\ evaluation.calls[i].tags = AppliedBefore(i)
          /\ \A j \in 1 .. i - 1 :
                evaluation.calls[j].tag # evaluation.calls[i].tag
          /\ \A p \in DependanciesOf(implementations,
                                      evaluation.calls[i].tag) :
                /\ \E j \in 1 .. i - 1 : evaluation.calls[j].tag = p
                /\ p \in evaluation.calls[i].tags
                     <=> \E j \in 1 .. i - 1 :
                            /\ evaluation.calls[j].tag = p
                            /\ evaluation.calls[j].result
    /\ evaluated # None =>
          /\ Len(evaluation.calls) = Len(implementations)
          /\ {evaluation.calls[i].tag : i \in DOMAIN evaluation.calls}
               = TagsOf(implementations)
          /\ evaluated[1] = AppliedBefore(Len(evaluation.calls) + 1)

\* The rules tf2, mode:cp (after tf2) and mode:koth (after both) have been
\* evaluated for a server to which all three apply.
C26_Witness ==
    /\ TagsOf(implementations) = {"tf2", "mode:cp", "mode:koth"}
    /\ DependanciesOf(implementations, "mode:cp") = {"tf2"}
    /\ DependanciesOf(implementations, "mode:koth") = {"tf2", "mode:cp"}
    /\ evaluated = Some({"tf2", "mode:cp", "mode:koth"})
    /\ evaluation.calls[3] =
         [tag |-> "mode:koth", tags |-> {"tf2", "mode:cp"}, result |-> TRUE]

\* C27: Tagger() yields no tagger and raises TaggerError when two
\* implementations have the same tag, and DependancyError when the tags
\* are distinct and a named dependency has no implementation.
C27_RegistrationRejects ==
    tagger # NoTagger =>
        /\ Duplicate(implementations)
              => tagger = [err |-> "TaggerError", taggers |-> <<>>]
        /\ ~Duplicate(implementations) /\ Unresolved(implementations)
              => tagger = [err |-> "DependancyError", taggers |-> <<>>]

\* What Tagger() does with these implementations: it yields no tagger,
\* with TaggerError for a duplicate tag and with NameError for a
\* dependency that has no implementation, and nothing is evaluated.
C27_NoTaggerForBadRuleSets ==
    tagger # NoTagger =>
        /\ Duplicate(implementations)
              => tagger = [err |-> "TaggerError", taggers |-> <<>>]
        /\ ~Duplicate(implementations) /\ Unresolved(implementations)
              => tagger = [err |-> "NameError", taggers |-> <<>>]
        /\ tagger.err # "" => evaluation.calls = <<>> /\ evaluated = None

\* C28, as stated: every address of a tag index is in the authoritative
\* set, and every address of the authoritative set is in the index of at
\* least one tag.
C28_AuthoritativeSetBothWays ==
    /\ \A t \in Tags : tagidx[t] \subseteq servers
    /\ \A k \in servers : \E t \in Tags : k \in tagidx[t]

\* C28, amended: every address of a tag index is in the authoritative
\* set.
C28_TaggedAddressesAreServers ==
    \A t \in Tags : tagidx[t] \subseteq servers

\* One server is in the index of a tag; another is in the authoritative
\* set without a tag, both with no set in progress.
C28_Witness ==
    /\ NoSetInProgress
    /\ \E k, j \in servers :
          /\ k \in tagidx["tf2"]
          /\ \A t \in Tags : j \notin tagidx[t]

\* C29: when the gateway has handled a subscribe message for address a,
\* a is a member of the authoritative set; and no step removes a member
\* of the authoritative set.
C29_EntryBySubscription ==
    /\ [](\A c \in Clients :
             SubscribeHandled(c) => str(rpc[c].msg.address) \in servers)
    /\ [][servers \subseteq servers']_vars

\* No step removes a member of the authoritative set.
C29_NeverRemoved == [][servers \subseteq servers']_vars

\* The steps of the clients leave the authoritative set as it is: an
\* address enters it by a set or an ensure of another process only.
C29_GatewayNeverEnsures ==
    [][servers' # servers
          => \E h \in Handles : pc[h] = "idle" /\ pc'[h] # "idle"]_vars

\* A step of a cache operation other than set: in SpecReaders every call
\* on a handle other than the first is one of ensure, get, search, all,
\* subscribe, interesting and update_interest_queue.
ApiReaderStep == \E h \in Handles \ {1} : pc'[h] # pc[h]

\* A step of the gateway for a message of a client: its receipt and the
\* steps of its subscribe, unsubscribe or query handler.
HandlerStep == \E c \in Clients : rpc'[c] # rpc[c]

\* The step of a get call.
GetStep ==
    \E h \in Handles :
        pc[h] = "idle" /\ pc'[h] = "ret" /\ ret'[h].op = "get"

\* C30: the steps of ensure, get, search, all, subscribe, interesting and
\* update_interest_queue, and the steps of the subscribe, unsubscribe and
\* query handlers of the gateway, leave every status hash, every tag set
\* and every reverse-index set of a tag as they were; a get moreover
\* leaves the authoritative set, the interest counters and the interest
\* queue as they were, so that no later get, search, all or interesting
\* sees a difference.
C30_ReadersNeverMutateStatus ==
    [][ /\ ApiReaderStep \/ HandlerStep =>
            UNCHANGED <<hash, stags, tagidx>>
        /\ GetStep =>
            UNCHANGED <<servers, hash, stags, tagidx, interest, iq>> ]_vars

\* A status with its tags is stored and indexed, a subscribe has counted
\* its interest, a handler has sent the status to the first client, and a
\* get has just returned the stored tags.
C30_Witness ==
    \E h \in Handles \ {1}, s \in MatchStatuses :
        LET k == str(s.address)
        IN  /\ pc[h] = "ret"
            /\ ret[h].op = "get"
            /\ ret[h].val.tags = {"tf2", "mode:cp"}
            /\ stags[k] = {"tf2", "mode:cp"}
            /\ hash[k].name # None
            /\ k \in tagidx["mode:cp"]
            /\ interest[k] > 0
            /\ Len(send_queue[1]) > 0

\* A step of a set call of handle h: its first step or a later one.
SetCallStep(h) ==
    \/ pc[h] = "idle" /\ pc'[h] = "set_multi"
    \/ InSet(h) /\ (pc'[h] # pc[h] \/ loc'[h] # loc[h])

\* C31: whatever interest the status given to set carries, no step of the
\* set changes an interest counter or the interest queue, and the interest
\* a get returns, for the address of the status as for any other, is the
\* same after the step as before it.
C31_SetIgnoresInterest ==
    [][ \A h \in Handles :
          SetCallStep(h) =>
            /\ UNCHANGED <<interest, iq>>
            /\ \A a \in Addresses :
                 GetStatus(a).interest' = GetStatus(a).interest ]_vars

\* A set of a status that carries interest 7 has completed for an address
\* that was subscribed to once: its counter is 1 and its item is queued.
C31_Witness ==
    \E a \in Addresses :
        /\ sethist[str(a)] # <<>>
        /\ Last(sethist[str(a)]).interest = 7
        /\ interest[str(a)] = 1
        /\ GetStatus(a).interest = 1
        /\ iq # <<>>

\* The first step of a subscribe call of handle h for address a.
SubscribeStep(h, a) ==
    /\ pc[h] = "idle"
    /\ pc'[h] = "subscribe_push"
    /\ loc'[h].address = a

\* C32: every interest counter is an integer that is at least 0; no step
\* of a cache operation or of the gateway lowers a counter (the steps of
\* the unsubscribe handler and of a client that disconnects change none);
\* a counter changes only in a step of subscribe, and every subscribe
\* raises the counter of its address by exactly 1 and no other counter.
C32_InterestMonotonic ==
    /\ [](\A k \in AddrKeys : interest[k] \in Nat)
    /\ [][ /\ \A k \in AddrKeys : interest'[k] >= interest[k]
           /\ interest' # interest =>
                \E h \in Handles, a \in Addresses : SubscribeStep(h, a)
           /\ \A h \in Handles, a \in Addresses :
                SubscribeStep(h, a) =>
                  interest' = [interest EXCEPT ![str(a)] = @ + 1]
           /\ HandlerStep \/ (\E c \in Clients : conn'[c] # conn[c]) =>
                UNCHANGED interest ]_vars

\* Two subscribe calls have counted the interest in an address, and the
\* first client, whose last message was an unsubscribe for it, has
\* disconnected: the counter is still 2.
C32_Witness ==
    \E a \in Addresses :
        /\ interest[str(a)] = 2
        /\ nsub[str(a)] = 2
        /\ conn[1] = "closed"
        /\ rpc[1].msg = [type |-> "unsubscribe", address |-> a]

\* C33: Players.from_json(p.to_json()) has the current, max and bots
\* counts of p and the same sequence of (name, score, duration) entries,
\* for every well-formed p, also one with entries.
C33_PlayersJsonRoundTrip ==
    players_back # None =>
        /\ players_back[1].current = players.current
        /\ players_back[1].max = players.max
        /\ players_back[1].bots = players.bots
        /\ players_back[1].scores = players.scores

\* What holds of the round trip: the three counts come back, and the
\* entries come back when there are none.
C33_CountsRoundTrip ==
    players_back # None =>
        /\ players_back[1].current = players.current
        /\ players_back[1].max = players.max
        /\ players_back[1].bots = players.bots
        /\ players.scores = <<>> => players_back[1] = players

\* The step of an ensure call of handle h for address a.
EnsureStep(h, a) ==
    /\ pc[h] = "idle"
    /\ pc'[h] = "ret"
    /\ ret'[h].op = "ensure"
    /\ ret'[h].key = str(a)

\* Handle h holds the result of an ensure call for the address key k.
Ensured(h, k) == pc[h] = "ret" /\ ret[h].op = "ensure" /\ ret[h].key = k

\* C34: ensure(a) returns true exactly when a was not in the authoritative
\* set before, and a is in the set after it; an ensure of a member returns
\* false and changes nothing in Redis; of the callers that hold results of
\* ensure for one address at a time at most one holds true, and the first
\* of them to add an absent address holds it; ensure changes no key other
\* than servers.
C34_EnsureIdempotent ==
    /\ [](\A h \in Handles, k \in AddrKeys :
            Ensured(h, k) =>
              /\ k \in servers
              /\ \A g \in Handles \ {h} :
                   Ensured(g, k) => ~(ret[h].val /\ ret[g].val))
    /\ [][ \A h \in Handles, a \in Addresses :
            EnsureStep(h, a) =>
              /\ ret'[h].val = (str(a) \notin servers)
              /\ servers' = servers \cup {str(a)}
              /\ str(a) \in servers => UNCHANGED redis
              /\ UNCHANGED <<hash, stags, tagidx, interest, iq, tmp,
                             published>> ]_vars

\* Both callers have run ensure for the same address, which no set had
\* added: one of them holds true, the other false.
C34_Witness ==
    \E k \in AddrKeys :
        /\ nsets = 0
        /\ Ensured(1, k) /\ Ensured(2, k)
        /\ ret[1].val # ret[2].val
        /\ servers = {k}

\* The address keys the enumeration has yielded.
YieldedKeys ==
    {str(enumeration.yielded[i]) : i \in 1 .. Len(enumeration.yielded)}

\* C35: an enumeration that all() has started reaches its end, whatever
\* ensure and set calls run beside it, after at most as many items as
\* there are addresses; every address it yields is a member of the
\* authoritative set; when it has ended it has yielded every address that
\* was a member from its start on; after its end nothing more is yielded.
C35_Enumeration ==
    /\ [](/\ YieldedKeys \subseteq servers
          /\ Len(enumeration.yielded) <= Cardinality(AddrKeys)
          /\ enumeration.done => enumeration.start \subseteq YieldedKeys)
    /\ [][enumeration.done =>
            /\ enumeration'.done
            /\ enumeration'.yielded = enumeration.yielded]_vars
    /\ (enumeration.at = "open") ~> enumeration.done

\* The enumeration has ended; it began with one member, and ensure added
\* the other one while it ran, which it has not yielded.
C35_Witness ==
    /\ enumeration.done
    /\ Cardinality(enumeration.start) = 1
    /\ YieldedKeys = enumeration.start
    /\ servers = AddrKeys

\* The enumeration has ended and has yielded a member that was added
\* after its start.
C35_WitnessLateMember ==
    /\ enumeration.done
    /\ Cardinality(enumeration.start) = 1
    /\ YieldedKeys = AddrKeys

\* The status a get returned has the stored fields and the tags of s.
FromOneSet(got, s) ==
    /\ got.name = s.name
    /\ got.map = s.map
    /\ got.application_id = s.application_id
    /\ got.players = s.players
    /\ got.tags = s.tags

\* The status a get returns for an address no set has written.
NeverSet(got) ==
    /\ got.name = None
    /\ got.map = None
    /\ got.application_id = None
    /\ got.players = EmptyPlayers
    /\ got.tags = {}

\* The transaction of some set call for the address key k has committed:
\* a set for it has completed or is past its MULTI block.
Committed(k) ==
    \/ sethist[k] # <<>>
    \/ \E g \in Handles :
         /\ pc[g] \in {"set_notify", "set_srem", "set_notify_tag"}
         /\ loc[g].key = k

\* C36: whatever set calls run beside it, the status a get returns has
\* its name, map, application_id, players and tags all from one set call
\* for the address, or, when no transaction of a set for the address has
\* committed yet, all from the state before any set; it never has the
\* hash of one set with the tags of another, nor an emptied hash or tag
\* set.
C36_SetAtomicTowardsReaders ==
    [][ \A h \in Handles :
          (pc[h] = "idle" /\ pc'[h] = "ret" /\ ret'[h].op = "get") =>
            IF Committed(ret'[h].key)
            THEN \E s \in AtomicStatuses :
                   /\ str(s.address) = ret'[h].key
                   /\ FromOneSet(ret'[h].val, s)
            ELSE NeverSet(ret'[h].val) ]_vars

\* A get has returned the status of one set while another handle is
\* between the transaction of a set of the other status and its end.
C36_Witness ==
    \E h \in Handles, g \in Handles, s \in AtomicStatuses :
        /\ pc[h] = "ret" /\ ret[h].op = "get"
        /\ FromOneSet(ret[h].val, s)
        /\ pc[g] \in {"set_notify", "set_srem"}
        /\ loc[g].status # s

\* A set call for the address key k has committed its transaction and has
\* still to remove the address from the index of the tag t it dropped.
CleanupPending(k, t) ==
    \E g \in Handles :
        /\ loc[g].op = "set"
        /\ loc[g].key = k
        /\ \/ pc[g] = "set_notify" /\ t \in loc[g].old_tags \ loc[g].tags
           \/ pc[g] = "set_srem" /\ t \in loc[g].rem

\* C37: when the set calls for one address do not overlap, in every
\* state, also between the transaction of a set and its cleanup, every
\* tag of the tag set of an address has the address in its reverse index;
\* an address is in the index of a tag that is not in its tag set only
\* while the set that dropped the tag has still to remove it; and the
\* intersection a search by one tag stores holds every address that has
\* the tag in its tag set.
C37_NewTagsIndexedWithStatus ==
    /\ [](\A k \in AddrKeys, t \in Tags :
            /\ t \in stags[k] => k \in tagidx[t]
            /\ (k \in tagidx[t] /\ t \notin stags[k]) => CleanupPending(k, t))
    /\ [][ \A h \in Handles, t \in Tags :
            (pc[h] = "idle" /\ pc'[h] = "search_sdiff"
                /\ loc'[h].include = {t}) =>
              /\ tmp'[h] # None \/ \A k \in AddrKeys : t \notin stags[k]
              /\ tmp'[h] # None =>
                   {k \in AddrKeys : t \in stags[k]} \subseteq tmp'[h][1]
          ]_vars

\* Between the transaction of a set that replaced the tag of an address
\* and its cleanup: the address is indexed under its new tag and still
\* under the old one, and a search by the new tag has found it.
C37_Witness ==
    \E h \in Handles, g \in Handles, k \in AddrKeys :
        /\ pc[g] = "set_srem" /\ loc[g].key = k
        /\ stags[k] = {"mode:cp"}
        /\ k \in tagidx["mode:cp"] /\ k \in tagidx["tf2"]
        /\ pc[h] = "search_sdiff" /\ loc[h].include = {"mode:cp"}
        /\ tmp[h] # None /\ k \in tmp[h][1]

\* The step is the one of _watch on handle h in which poll raises
\* PollError: the turn of the loop ends and no set call has begun.
PollRaised(h) == ppc[h] = "poll" /\ ppc'[h] # "poll" /\ pc'[h] = "idle"

\* The loop body of handle h has ended for the item it holds, and
\* update_interest_queue has still to run.
TurnEnded(h) == ppc[h] = "update" /\ pc[h] = "idle" /\ active[h] # None

\* C38: a poll that raises PollError leaves the worker with its active
\* item and with update_interest_queue as its next call; a worker pops
\* an item only when it holds none; the update_interest_queue after the
\* failed poll decides by the usual staleness check, and when the check
\* passes the item is pushed at the tail of the queue and the active
\* marker is cleared, which does happen; so, with steady interest, the
\* item of an address whose poll failed is in the queue again, for the
\* next drain.
C38_FailedPollKeepsAddress ==
    /\ [][ \A h \in Handles :
            /\ PollRaised(h) =>
                 /\ ppc'[h] = "update"
                 /\ active[h] # None /\ active'[h] = active[h]
                 /\ iq' = iq
            /\ (active'[h] # None /\ active'[h] # active[h]) =>
                 ppc[h] = "interesting" /\ active[h] = None
            /\ (ppc[h] = "update" /\ pc[h] = "idle" /\ ppc'[h] # "update") =>
                 /\ iq' = iq
                 /\ IF reenqueue(interest[str(active_address(h))],
                                 active[h][1][1])
                    THEN pc'[h] = "update_push" /\ active'[h] = active[h]
                    ELSE pc'[h] = "idle" /\ active'[h] = None
            /\ (pc[h] = "update_push" /\ pc'[h] = "idle") =>
                 /\ iq' = Append(iq, <<active[h][1][1],
                                       str(active_address(h))>>)
                 /\ active'[h] = None ]_vars
    /\ \A h \in Handles : TurnEnded(h) ~> active[h] = None

\* No poll has ever succeeded (nothing was ever set), and the three items
\* of an address are in the queue in an order that only a pop and a push
\* of the first of them gives: its poll failed and it was enqueued again.
C38_Witness ==
    \E k \in AddrKeys :
        /\ servers = {}
        /\ hash[k] = NoHash
        /\ iq = <<<<2, k>>, <<3, k>>, <<1, k>>>>
        /\ \A h \in Handles : active[h] = None

\* The step is the reaction of client c's _watch_notifications to a SERVER
\* notification.
ReactsToServer(c) ==
    /\ dpc[c].at = "notified"
    /\ dpc[c].note[1][1] = "servers"
    /\ dpc'[c] # dpc[c]

C39_PublishedAfterCommit ==
    /\ [](\A c \in Clients, a \in Addresses :
            (\/ \E i \in DOMAIN inbox[c] :
                  inbox[c][i] = <<ServerChannel(a), str(a)>>
             \/ dpc[c].note = Some(<<"servers", a>>)) =>
              hash[str(a)] # NoHash)
    /\ [][ /\ \A h \in Handles :
               SetNotifiesServer(h) =>
                 /\ hash[loc[h].key] = loc[h].hash_
                 /\ stags[loc[h].key] = loc[h].tags
          /\ \A c \in Clients :
               ReactsToServer(c) =>
                 /\ send_queue'[c] = send_queue[c]
                 /\ dpc'[c].at = "failed" ]_vars

\* A step of a search call of handle h: its SINTERSTORE, its SDIFF, its
\* DELETE, or its return without a command.
SearchStep(h) ==
    /\ pc'[h] # pc[h]
    /\ \/ loc[h].op = "search"
       \/ loc'[h].op = "search"
       \/ Idle(h) /\ pc'[h] = "ret" /\ ret'[h].op = "search"

\* Handle h is between the SINTERSTORE and the DELETE of a search.
InSearch(h) == pc[h] \in {"search_sdiff", "search_delete", "search_finally"}

\* C40: search leaves no trace. A handle that is not inside a search,
\* so also one whose search has returned or failed, has no temporary
\* key; no step of a search changes the servers set, a status hash, a tag
\* set, a reverse index, an interest counter or the interest queue; and a
\* search that returns while others run returns what its own include and
\* exclude tags select, whatever the others stored.
C40_SearchLeavesNoTrace ==
    /\ [](\A h \in Handles : ~InSearch(h) => tmp[h] = None)
    /\ [][\A h \in Handles :
            SearchStep(h) =>
              /\ UNCHANGED <<servers, hash, stags, tagidx, interest, iq>>
              /\ \A g \in Handles \ {h} :
                    /\ tmp'[g] = tmp[g]
                    /\ loc'[g] = loc[g]
                    /\ ret'[g] = ret[g]]_vars
    /\ [](\A h \in Handles :
            (pc[h] = "ret" /\ ret[h].op = "search" /\ ret[h].err = "") =>
                ret[h].val =
                    IF ret[h].include = {} THEN {}
                    ELSE ParseAll(sdiff(sinterstore(ret[h].include),
                                        ret[h].exclude)))

\* C40 witness: a search has returned a server and left no key while
\* another search, by other tags, holds a different intersection under
\* its own key and has read a different result.
C40_Witness ==
    \E h \in Handles, g \in Handles :
        /\ pc[h] = "ret" /\ ret[h].op = "search" /\ ret[h].err = ""
        /\ ret[h].val # {} /\ tmp[h] = None
        /\ pc[g] = "search_delete" /\ tmp[g] # None
        /\ loc[g].include # ret[h].include
        /\ ParseAll(tmp[g][1]) # ret[h].val
        /\ ParseAll(loc[g].raw_addresses) # ret[h].val
        /\ servers # {}

\* Two searches hold different intersections under their keys at once.
C40_WitnessConcurrent ==
    /\ pc[1] = "search_delete" /\ pc[2] = "search_sdiff"
    /\ tmp[1] # None /\ tmp[2] # None /\ tmp[1] # tmp[2]

\* A search has failed after its intersection was stored, and has left no
\* key, while another search still holds its own.
C40_WitnessFailed ==
    \E h \in Handles, g \in Handles :
        /\ pc[h] = "ret" /\ ret[h].op = "search" /\ ret[h].err = "ErrorReply"
        /\ tmp[h] = None /\ sinterstore(ret[h].include) # {}
        /\ InSearch(g) /\ tmp[g] # None

====
